---------------------------- MODULE Spec2Model ----------------------------
(***************************************************************************)
(* Workflow graph synchronization of livekit-workflow-agent: the durable   *)
(* store (db_setup.sql), the remote store adapter (flowService.js,         *)
(* projectService.js) and the Flow page session (FlowPage: load, local     *)
(* edits, handleSave, realtime reconciliation).                            *)
(*                                                                         *)
(* Modelling notes.                                                        *)
(*  - created_at / updated_at columns are not modelled (no property reads  *)
(*    them); the final UPDATE projects of save_flow therefore changes no   *)
(*    modelled column.                                                     *)
(*  - A save_flow call is one Postgres transaction: it is one step, and    *)
(*    its change events are emitted at commit.                             *)
(*  - Text values are drawn from small sets of strings; NULL is the SQL    *)
(*    NULL / JS null / undefined.                                          *)
(***************************************************************************)
EXTENDS Integers, Sequences, FiniteSets, TLC

VARIABLES
  \* ---- durable store (db_setup.sql)
  projects,           \* set of project ids (table projects)
  tools,              \* set of tool ids (table tools)
  dbNodes,            \* set of rows of table nodes (primary key id)
  dbEdges,            \* set of rows of table edges (primary key id)
  \* ---- a direct caller of the adapter API (flowService.js)
  api,                \* the call last made through the adapter and its result
  \* ---- Flow page sessions (one React component instance each)
  projectId,          \* useParams().id of the mounted Flow page, NULL if none
  nodes,              \* useState nodes: array of ReactFlow nodes
  edges,              \* useState edges: array of ReactFlow edges
  hasUnsavedChanges,  \* useState hasUnsavedChanges (the dirty flag)
  isLoading,          \* useState isLoading
  error,              \* useState error
  load,               \* position of the running loadProjectData, "idle" if none
  saves,              \* the handleSave invocations of the session, in order
  edited,             \* history: a local edit was applied after the snapshot
                      \*   of the last successful save or load
  clock,              \* last value read from Date.now()
  nodesSubscription,  \* project whose node stream is subscribed, NULL if none
  edgesSubscription,  \* project whose edge stream is subscribed, NULL if none
  nodeEvents,         \* node change events delivered to the session, in order
  edgeEvents,         \* edge change events delivered to the session, in order
  nodeFetches,        \* INSERT/UPDATE node handlers awaiting fetchNodesByProject
  used,               \* history: the number of local edits of each session, of
                      \*   writes of other clients and of redelivered events so far
  txns,               \* the save_flow transaction of each client, statement by
                      \*   statement (two clients saving at the same time)
  stale,              \* what each page still has running for a project it has
                      \*   left: loads and node callbacks awaiting a fetch
  home,               \* the home page: its project list, its load and the
                      \*   project events delivered to its subscription
  modal               \* the tool modal (ToolEditModal): its props, its form,
                      \*   its flags and the toolService call it awaits

storeVars   == <<projects, tools, txns, dbNodes, dbEdges>>
streamVars  == <<nodeEvents, edgeEvents>>
subVars     == <<nodesSubscription, edgesSubscription>>
localVars   == <<nodes, edges, hasUnsavedChanges>>
sessionVars == <<projectId, nodes, edges, hasUnsavedChanges, isLoading, error,
                 load, saves, edited, clock, nodesSubscription,
                 edgesSubscription, nodeFetches, used>>
vars == <<projects, tools, dbNodes, dbEdges, api, projectId, nodes, edges,
          hasUnsavedChanges, isLoading, error, load, saves, edited, clock,
          nodesSubscription, edgesSubscription, nodeEvents, edgeEvents,
          nodeFetches, used, txns, stale, home, modal, modal>>

-----------------------------------------------------------------------------
(* Value domains *)

NULL == "null"

Projects == {"P", "Q"}
Sessions == {"A", "B"}         \* B is opened in the two-session specification only
ToolIds  == {"t1", "t2"}       \* t1 exists in the store, t2 does not

\* 'start_' || NEW.id
StartId(p) == "start_" \o p

NodeRow(id, pid, title, prompt, ntype, tool, x, y) ==
  [id |-> id, project_id |-> pid, title |-> title, prompt |-> prompt,
   node_type |-> ntype, tool_id |-> tool, position_x |-> x, position_y |-> y]

EdgeRow(id, pid, src, tgt, label, prompt) ==
  [id |-> id, project_id |-> pid, source_id |-> src, target_id |-> tgt,
   label |-> label, prompt |-> prompt]

\* The row the trigger inserts for a new project.
StartRow(p) ==
  NodeRow(StartId(p), p, "Start", "This is the starting point of your flow",
          "start", NULL, 50, 50)

RECURSIVE SetToSeq(_)
SetToSeq(S) ==
  IF S = {} THEN <<>>
  ELSE LET x == CHOOSE y \in S : TRUE IN <<x>> \o SetToSeq(S \ {x})

SeqToSet(q) == {q[i] : i \in DOMAIN q}

Ids(rows) == {r.id : r \in rows}

\* The home page before it is mounted: useState([]), useState(true),
\* useState(null), no load running, no subscription, no event delivered.
NoHome ==
  [projects |-> <<>>, isLoading |-> TRUE, error |-> NULL, load |-> "idle",
   subscription |-> FALSE, events |-> <<>>]

\* No toolService call is awaited by the tool modal.
NoToolCall ==
  [op |-> "none", id |-> NULL, headers |-> NULL, body |-> NULL, result |-> NULL]

\* The tool modal before it is opened: the parent has not set isOpen, and
\* useState({... headers: '', body: ''}), useState(false), useState(null).
\* submits counts the handleSubmit invocations so far.
NoModal ==
  [isOpen |-> FALSE, tool |-> [id |-> NULL, headers |-> NULL, body |-> NULL],
   formData |-> [headers |-> <<>>, body |-> <<>>], isSubmitting |-> FALSE,
   error |-> NULL, call |-> NoToolCall, submits |-> 0]

-----------------------------------------------------------------------------
(* The durable store: constraints, triggers and save_flow (db_setup.sql) *)

\* A change event of the realtime feed: payload.eventType, and payload.new
\* (payload.old for DELETE) as rec.
Event(type, rec) == [eventType |-> type, rec |-> rec]

RowWithId(rows, id) == CHOOSE r \in rows : r.id = id

DuplicateIds(q) == \E i, j \in DOMAIN q : i # j /\ q[i].id = q[j].id

\* NOT NULL columns of nodes.
NodeNotNullOk(r) == r.id # NULL /\ r.project_id # NULL /\ r.title # NULL

\* tool_id UUID REFERENCES tools(id)
ToolFkOk(r) == r.tool_id = NULL \/ r.tool_id \in tools

\* project_id UUID NOT NULL REFERENCES projects(id)
ProjectFkOk(r) == r.project_id \in projects

\* NOT NULL columns of edges.
EdgeNotNullOk(e) ==
  e.id # NULL /\ e.project_id # NULL /\ e.source_id # NULL /\ e.target_id # NULL

\* BEFORE DELETE ON nodes: TRUE when the trigger raises for row old.
prevent_start_node_deletion(old) == old.node_type = "start"

\* SELECT EXISTS (... WHERE (value->>'node_type') = 'start')
has_start_node(p_nodes) ==
  \E i \in DOMAIN p_nodes : p_nodes[i].node_type = "start"

\* DELETE FROM nodes WHERE project_id = p_project_id AND node_type != 'start'
DeletedNodes(p_project_id) ==
  {r \in dbNodes : r.project_id = p_project_id /\ r.node_type # "start"}

\* DELETE FROM edges WHERE project_id = p_project_id
DeletedEdges(p_project_id) == {e \in dbEdges : e.project_id = p_project_id}

\* The row left by INSERT ... ON CONFLICT (id) DO UPDATE SET title, prompt,
\* node_type, tool_id, position_x, position_y: an existing row keeps its
\* project_id.
UpsertedRow(tbl, r) ==
  IF r.id \in Ids(tbl)
  THEN [r EXCEPT !.project_id = RowWithId(tbl, r.id).project_id]
  ELSE r

\* INSERT INTO nodes ... ON CONFLICT (id) DO UPDATE, on table contents tbl.
\* Raises on a NOT NULL violation, on a foreign-key violation (project_id
\* is checked for inserted rows only) and when two supplied rows have the
\* same id (the command cannot affect a row a second time).
UpsertNodes(tbl, p_nodes) ==
  LET rowOk(r) == /\ NodeNotNullOk(r)
                  /\ ToolFkOk(r)
                  /\ (r.id \notin Ids(tbl) => ProjectFkOk(r))
      ok == /\ ~DuplicateIds(p_nodes)
            /\ \A i \in DOMAIN p_nodes : rowOk(p_nodes[i])
  IN [ok   |-> ok,
      rows |-> {r \in tbl : r.id \notin Ids(SeqToSet(p_nodes))}
                 \cup {UpsertedRow(tbl, p_nodes[i]) : i \in DOMAIN p_nodes},
      events |-> [i \in DOMAIN p_nodes |->
                   Event(IF p_nodes[i].id \in Ids(tbl) THEN "UPDATE" ELSE "INSERT",
                         UpsertedRow(tbl, p_nodes[i]))]]

\* INSERT INTO edges ..., on table contents tbl: raises on a primary-key
\* conflict, a NOT NULL violation or a foreign-key violation.
InsertEdges(tbl, p_edges) ==
  LET ok == /\ ~DuplicateIds(p_edges)
            /\ \A i \in DOMAIN p_edges :
                 /\ p_edges[i].id \notin Ids(tbl)
                 /\ EdgeNotNullOk(p_edges[i])
                 /\ ProjectFkOk(p_edges[i])
  IN [ok     |-> ok,
      rows   |-> tbl \cup SeqToSet(p_edges),
      events |-> [i \in DOMAIN p_edges |-> Event("INSERT", p_edges[i])]]

\* The statements of save_flow in order: raised tells whether one of them
\* raised; nodes and edges are the tables as the statements executed so far
\* left them.
save_flow_body(p_project_id, p_nodes, p_edges) ==
  IF ~has_start_node(p_nodes)
  THEN [raised |-> TRUE, nodes |-> dbNodes, edges |-> dbEdges,
        nodeEvents |-> <<>>, edgeEvents |-> <<>>]
  ELSE
    LET delN  == DeletedNodes(p_project_id)
        delE  == DeletedEdges(p_project_id)
        up    == UpsertNodes(dbNodes \ delN, p_nodes)
        ins   == InsertEdges(dbEdges \ delE, p_edges)
        delNE == [i \in 1..Cardinality(delN) |-> Event("DELETE", SetToSeq(delN)[i])]
        delEE == [i \in 1..Cardinality(delE) |-> Event("DELETE", SetToSeq(delE)[i])]
    IN IF ~up.ok
       THEN [raised |-> TRUE, nodes |-> dbNodes \ delN, edges |-> dbEdges \ delE,
             nodeEvents |-> delNE, edgeEvents |-> delEE]
       ELSE IF ~ins.ok
       THEN [raised |-> TRUE, nodes |-> up.rows, edges |-> dbEdges \ delE,
             nodeEvents |-> delNE \o up.events, edgeEvents |-> delEE]
       ELSE [raised |-> FALSE, nodes |-> up.rows, edges |-> ins.rows,
             nodeEvents |-> delNE \o up.events,
             edgeEvents |-> delEE \o ins.events]

\* A broken store: the statements executed before the exception stay.
plpgsql_call_no_rollback(body) ==
  [ok |-> ~body.raised, nodes |-> body.nodes, edges |-> body.edges,
   nodeEvents |-> body.nodeEvents, edgeEvents |-> body.edgeEvents]

\* A plpgsql function call runs in one transaction: an exception rolls
\* back every statement of it, and no change event is emitted.
plpgsql_call(body) ==
  IF body.raised
  THEN [ok |-> FALSE, nodes |-> dbNodes, edges |-> dbEdges,
        nodeEvents |-> <<>>, edgeEvents |-> <<>>]
  ELSE [ok |-> TRUE, nodes |-> body.nodes, edges |-> body.edges,
        nodeEvents |-> body.nodeEvents, edgeEvents |-> body.edgeEvents]

\* supabase.rpc('save_flow', ...) as executed by the store.
save_flow(p_project_id, p_nodes, p_edges) ==
  plpgsql_call(save_flow_body(p_project_id, p_nodes, p_edges))

\* The events of evs a subscription filtered to project_id=eq.p receives.
Filtered(evs, p) == SelectSeq(evs, LAMBDA ev : ev.rec.project_id = p)

\* The store commits res: tables change and every active subscription
\* receives the events of its project, in commit order.
Commit(res) ==
  /\ dbNodes' = res.nodes
  /\ dbEdges' = res.edges
  /\ nodeEvents' = [s \in Sessions |->
        IF nodesSubscription[s] = NULL THEN nodeEvents[s]
        ELSE nodeEvents[s] \o Filtered(res.nodeEvents, nodesSubscription[s])]
  /\ edgeEvents' = [s \in Sessions |->
        IF edgesSubscription[s] = NULL THEN edgeEvents[s]
        ELSE edgeEvents[s] \o Filtered(res.edgeEvents, edgesSubscription[s])]

\* fetchNodesByProject: select *, tool:tools(*) where project_id = p. The
\* joined tool is represented by its id (NULL when the node has none).
fetchNodesByProject(p) ==
  {[row |-> r, tool |-> r.tool_id] : r \in {x \in dbNodes : x.project_id = p}}

\* fetchEdgesByProject: select * where project_id = p.
fetchEdgesByProject(p) == {e \in dbEdges : e.project_id = p}

-----------------------------------------------------------------------------
(* The remote store adapter called directly (flowService.js,               *)
(* projectService.js): every call is made with an arbitrary payload.       *)

NoCall == [op |-> "none", ok |-> TRUE, rpc |-> FALSE, pid |-> NULL,
           nodes |-> <<>>, edges |-> <<>>, id |-> NULL]

Call(op, ok, rpc, pid, ns, es, id) ==
  [op |-> op, ok |-> ok, rpc |-> rpc, pid |-> pid, nodes |-> ns, edges |-> es,
   id |-> id]

\* Node rows a caller may supply: the trigger's Start row, the Start row
\* with an edited title and prompt, the Start row with another node_type,
\* an ordinary node, the same node as a second Start, as a Tool node with an
\* existing and with a missing tool, and under the other project.
ApiNodeRows ==
  { StartRow("P"),
    NodeRow(StartId("P"), "P", "Begin", "Greet the caller", "start", NULL, 50, 50),
    NodeRow(StartId("P"), "P", "Start", "This is the starting point of your flow",
            "default", NULL, 50, 50),
    NodeRow("node_1", "P", "New Node", "Enter your prompt here", "default", NULL, 100, 100),
    NodeRow("node_1", "P", "New Node", "Enter your prompt here", "start", NULL, 100, 100),
    NodeRow("node_1", "P", "Lookup", "Call the tool", "tool", "t1", 100, 200),
    NodeRow("node_1", "P", "Lookup", "Call the tool", "tool", "t2", 100, 200),
    NodeRow("node_1", "Q", "New Node", "Enter your prompt here", "default", NULL, 100, 100) }

\* Edge rows a caller may supply.
ApiEdgeRows ==
  { EdgeRow("e1", "P", StartId("P"), "node_1", "Add Condition",
            "Describe the condition for this transition"),
    EdgeRow("e1", "Q", StartId("Q"), "node_1", "Add Condition",
            "Describe the condition for this transition") }

MaxApiNodes == 2
MaxApiEdges == 1

\* The arrays of at most n distinct rows of S, one per set of rows (the
\* store treats the array as a set of rows).
Arrays(S, n) == {SetToSeq(T) : T \in {U \in SUBSET S : Cardinality(U) <= n}}

\* Patches a caller may pass to updateNode.
ApiUpdates ==
  { [node_type |-> "default"],
    [node_type |-> "start"],
    [title |-> "Begin", node_type |-> "tool"],
    [title |-> "Begin"] }

\* A broken trigger: the Start node is placed at the origin.
create_start_node_at_origin(newId) ==
  [ok |-> StartId(newId) \notin Ids(dbNodes),
   nodes |-> dbNodes \cup {[StartRow(newId) EXCEPT !.position_x = 0, !.position_y = 0]},
   edges |-> dbEdges,
   nodeEvents |-> <<Event("INSERT", StartRow(newId))>>,
   edgeEvents |-> <<>>]

\* INSERT INTO projects: the AFTER INSERT trigger
\* create_start_node_for_project inserts the Start node in the same
\* statement; a primary-key conflict on its id aborts the insert.
create_start_node_for_project(newId) ==
  [ok |-> StartId(newId) \notin Ids(dbNodes),
   nodes |-> dbNodes \cup {StartRow(newId)},
   edges |-> dbEdges,
   nodeEvents |-> <<Event("INSERT", StartRow(newId))>>,
   edgeEvents |-> <<>>]

\* createProject: the store generates the id (a fresh uuid).
createProject(p) ==
  /\ api.op = "none"
  /\ p \notin projects
  /\ LET res == create_start_node_for_project(p)
     IN IF res.ok
        THEN /\ projects' = projects \cup {p}
             /\ Commit(res)
             /\ api' = Call("createProject", TRUE, TRUE, p, <<>>, <<>>, NULL)
        ELSE /\ api' = Call("createProject", FALSE, TRUE, p, <<>>, <<>>, NULL)
             /\ UNCHANGED <<projects, dbNodes, dbEdges, streamVars>>
  /\ UNCHANGED <<tools, txns, stale, home, modal, sessionVars>>

\* A broken adapter: the payload is not inspected before the RPC.
hasStartNodeUnchecked(ns) == TRUE

\* nodes.some(node => node.node_type === 'start')
hasStartNode(ns) == \E i \in DOMAIN ns : ns[i].node_type = "start"

\* saveFlow(projectId, {nodes, edges}) called directly.
saveFlow(p, ns, es) ==
  /\ api.op = "none"
  /\ IF ~hasStartNode(ns)
     THEN /\ api' = Call("saveFlow", FALSE, FALSE, p, ns, es, NULL)
          /\ UNCHANGED <<dbNodes, dbEdges, streamVars>>
     ELSE LET res == save_flow(p, ns, es)
          IN /\ Commit(res)
             /\ api' = Call("saveFlow", res.ok, TRUE, p, ns, es, NULL)
  /\ UNCHANGED <<projects, tools, txns, stale, home, modal, sessionVars>>

\* .insert([nodeData]) on nodes.
InsertNode(nodeData) ==
  [ok |-> /\ nodeData.id \notin Ids(dbNodes)
          /\ NodeNotNullOk(nodeData)
          /\ ProjectFkOk(nodeData)
          /\ ToolFkOk(nodeData),
   nodes |-> dbNodes \cup {nodeData},
   edges |-> dbEdges,
   nodeEvents |-> <<Event("INSERT", nodeData)>>,
   edgeEvents |-> <<>>]

\* A statement that raised changes nothing.
Statement(res) ==
  IF res.ok THEN res
  ELSE [ok |-> FALSE, nodes |-> dbNodes, edges |-> dbEdges,
        nodeEvents |-> <<>>, edgeEvents |-> <<>>]

\* createNode(nodeData)
createNode(nodeData) ==
  /\ api.op = "none"
  /\ LET res == Statement(InsertNode(nodeData))
     IN /\ Commit(res)
        /\ api' = Call("createNode", res.ok, TRUE, nodeData.project_id,
                       <<nodeData>>, <<>>, nodeData.id)
  /\ UNCHANGED <<projects, tools, txns, stale, home, modal, sessionVars>>

\* isStartNode(nodeId): select node_type ... .single(); any error (no such
\* row, transport failure) is caught and answered false.
isStartNode(nodeId, selectFails) ==
  IF selectFails \/ nodeId \notin Ids(dbNodes) THEN FALSE
  ELSE RowWithId(dbNodes, nodeId).node_type = "start"

\* The row r with the columns of updates set.
Patched(r, updates) ==
  [f \in DOMAIN r |-> IF f \in DOMAIN updates THEN updates[f] ELSE r[f]]

\* if (updates.node_type && await isStartNode(nodeId)) delete updates.node_type
EffectiveUpdates(nodeId, updates, selectFails) ==
  IF "node_type" \in DOMAIN updates /\ isStartNode(nodeId, selectFails)
  THEN [f \in DOMAIN updates \ {"node_type"} |-> updates[f]]
  ELSE updates

\* .update(updates).eq('id', nodeId).select().single()
UpdateNodeRow(nodeId, updates) ==
  IF nodeId \notin Ids(dbNodes)
  THEN [ok |-> FALSE, nodes |-> dbNodes, edges |-> dbEdges,
        nodeEvents |-> <<>>, edgeEvents |-> <<>>]
  ELSE LET old == RowWithId(dbNodes, nodeId)
           new == Patched(old, updates)
       IN [ok |-> NodeNotNullOk(new) /\ ToolFkOk(new),
           nodes |-> (dbNodes \ {old}) \cup {new},
           edges |-> dbEdges,
           nodeEvents |-> <<Event("UPDATE", new)>>,
           edgeEvents |-> <<>>]

\* updateNode(nodeId, updates)
updateNode(nodeId, updates, selectFails) ==
  /\ api.op = "none"
  /\ LET res == Statement(UpdateNodeRow(nodeId,
                   EffectiveUpdates(nodeId, updates, selectFails)))
     IN /\ Commit(res)
        /\ api' = Call("updateNode", res.ok, TRUE, NULL, <<>>, <<>>, nodeId)
  /\ UNCHANGED <<projects, tools, txns, stale, home, modal, sessionVars>>

\* .delete().eq('id', nodeId) on nodes, with the BEFORE DELETE trigger.
DeleteNodeRow(nodeId) ==
  LET del == {r \in dbNodes : r.id = nodeId}
  IN [ok |-> \A r \in del : ~prevent_start_node_deletion(r),
      nodes |-> dbNodes \ del,
      edges |-> dbEdges,
      nodeEvents |-> [i \in 1..Cardinality(del) |-> Event("DELETE", SetToSeq(del)[i])],
      edgeEvents |-> <<>>]

\* deleteNode(nodeId)
deleteNode(nodeId, selectFails) ==
  /\ api.op = "none"
  /\ IF isStartNode(nodeId, selectFails)
     THEN /\ api' = Call("deleteNode", FALSE, FALSE, NULL, <<>>, <<>>, nodeId)
          /\ UNCHANGED <<dbNodes, dbEdges, streamVars>>
     ELSE LET res == Statement(DeleteNodeRow(nodeId))
          IN /\ Commit(res)
             /\ api' = Call("deleteNode", res.ok, TRUE, NULL, <<>>, <<>>, nodeId)
  /\ UNCHANGED <<projects, tools, txns, stale, home, modal, sessionVars>>

\* .delete().eq('id', projectId) on projects: nodes and edges of the project
\* are deleted by ON DELETE CASCADE, the BEFORE DELETE trigger on nodes fires
\* for every cascaded node row, and an exception aborts the statement.
DeleteProjectRow(p_id) ==
  LET delN == {r \in dbNodes : r.project_id = p_id}
      delE == {e \in dbEdges : e.project_id = p_id}
  IN [ok |-> \A r \in delN : ~prevent_start_node_deletion(r),
      nodes |-> dbNodes \ delN,
      edges |-> dbEdges \ delE,
      nodeEvents |-> [i \in 1..Cardinality(delN) |-> Event("DELETE", SetToSeq(delN)[i])],
      edgeEvents |-> [i \in 1..Cardinality(delE) |-> Event("DELETE", SetToSeq(delE)[i])]]

\* deleteProject(projectId)
deleteProject(p_id) ==
  /\ api.op = "none"
  /\ LET res == Statement(DeleteProjectRow(p_id))
     IN /\ Commit(res)
        /\ projects' = IF res.ok THEN projects \ {p_id} ELSE projects
        /\ api' = Call("deleteProject", res.ok, TRUE, p_id, <<>>, <<>>, NULL)
  /\ UNCHANGED <<tools, txns, stale, home, modal, sessionVars>>

\* A broken foreign key: the nodes that reference the tool are deleted
\* with it.
DeleteToolRowCascading(toolId) ==
  LET ref == {r \in dbNodes : r.tool_id = toolId}
  IN [ok |-> TRUE,
      nodes |-> dbNodes \ ref,
      edges |-> dbEdges,
      nodeEvents |-> [i \in 1..Cardinality(ref) |-> Event("DELETE", SetToSeq(ref)[i])],
      edgeEvents |-> <<>>]

\* .delete().eq('id', toolId) on tools: tool_id UUID REFERENCES tools(id)
\* ON DELETE SET NULL updates the nodes that reference the tool.
DeleteToolRow(toolId) ==
  LET ref == {r \in dbNodes : r.tool_id = toolId}
      cleared == {[r EXCEPT !.tool_id = NULL] : r \in ref}
  IN [ok |-> TRUE,
      nodes |-> (dbNodes \ ref) \cup cleared,
      edges |-> dbEdges,
      nodeEvents |-> [i \in 1..Cardinality(cleared) |->
                        Event("UPDATE", SetToSeq(cleared)[i])],
      edgeEvents |-> <<>>]

\* deleteTool(toolId) of toolService.js
deleteTool(toolId) ==
  /\ api.op = "none"
  /\ LET res == Statement(DeleteToolRow(toolId))
     IN /\ Commit(res)
        /\ tools' = tools \ {toolId}
        /\ api' = Call("deleteTool", res.ok, TRUE, NULL, <<>>, <<>>, toolId)
  /\ UNCHANGED <<projects, txns, stale, home, modal, sessionVars>>

\* The caller takes the result; the next call can be made.
ApiReturn ==
  /\ api.op # "none"
  /\ api' = NoCall
  /\ UNCHANGED <<storeVars, stale, home, modal, streamVars, sessionVars>>

-----------------------------------------------------------------------------
(* Two clients calling saveFlow at the same time: the statements of         *)
(* save_flow as the store interleaves them (READ COMMITTED, the default     *)
(* isolation level): a statement sees the rows committed when it starts    *)
(* and the transaction's own writes, and waits for a row that another      *)
(* transaction has written and not yet committed.                          *)

\* No call has been made by the client.
NoTxn ==
  [pc |-> "idle", pid |-> NULL, nodes |-> <<>>, edges |-> <<>>,
   delN |-> {}, delE |-> {}, putN |-> {}, putE |-> {},
   nodeEvents |-> <<>>, edgeEvents |-> <<>>,
   result |-> "none", order |-> 0, calls |-> 0]

MaxTxnCalls == 1

\* The transaction is between BEGIN and COMMIT / ROLLBACK.
Active(t) == t.pc \notin {"idle", "done"}

\* The rows of each table on which transaction t holds a row lock.
NodeLocks(t) == Ids(t.delN) \cup Ids(t.putN)
EdgeLocks(t) == Ids(t.delE) \cup Ids(t.putE)

\* No other transaction holds a lock on a node (edge) row with an id of ids.
NodeRowsFree(c, ids) ==
  \A o \in Sessions \ {c} : ids \cap NodeLocks(txns[o]) = {}
EdgeRowsFree(c, ids) ==
  \A o \in Sessions \ {c} : ids \cap EdgeLocks(txns[o]) = {}

\* The transaction ends: its locks are released, its payload and result stay
\* for the caller.
Finished(t, result, order) ==
  [t EXCEPT !.pc = "done", !.delN = {}, !.delE = {}, !.putN = {}, !.putE = {},
            !.nodeEvents = <<>>, !.edgeEvents = <<>>,
            !.result = result, !.order = order]

\* saveFlow(projectId, nodes, edges) of client c: the start-node check of the
\* adapter, then supabase.rpc('save_flow'): BEGIN and the check of save_flow.
TxnBegin(c, p, ns, es) ==
  /\ ~Active(txns[c])
  /\ txns[c].calls < MaxTxnCalls
  /\ LET t == [NoTxn EXCEPT !.pid = p, !.nodes = ns, !.edges = es,
                            !.calls = txns[c].calls + 1]
     IN txns' = [txns EXCEPT ![c] =
          IF hasStartNode(ns) /\ has_start_node(ns)
          THEN [t EXCEPT !.pc = "deleteNodes"]
          ELSE Finished(t, "error", 0)]
  /\ UNCHANGED <<projects, tools, stale, home, modal, dbNodes, dbEdges, api, streamVars, sessionVars>>

\* DELETE FROM nodes WHERE project_id = p_project_id AND node_type != 'start'
TxnDeleteNodes(c) ==
  /\ txns[c].pc = "deleteNodes"
  /\ LET del == DeletedNodes(txns[c].pid)
     IN /\ NodeRowsFree(c, Ids(del))
        /\ txns' = [txns EXCEPT ![c] =
             [@ EXCEPT !.pc = "deleteEdges", !.delN = del,
                       !.nodeEvents = [i \in 1..Cardinality(del) |->
                                         Event("DELETE", SetToSeq(del)[i])]]]
  /\ UNCHANGED <<projects, tools, stale, home, modal, dbNodes, dbEdges, api, streamVars, sessionVars>>

\* DELETE FROM edges WHERE project_id = p_project_id
TxnDeleteEdges(c) ==
  /\ txns[c].pc = "deleteEdges"
  /\ LET del == DeletedEdges(txns[c].pid)
     IN /\ EdgeRowsFree(c, Ids(del))
        /\ txns' = [txns EXCEPT ![c] =
             [@ EXCEPT !.pc = "upsertNodes", !.delE = del,
                       !.edgeEvents = [i \in 1..Cardinality(del) |->
                                         Event("DELETE", SetToSeq(del)[i])]]]
  /\ UNCHANGED <<projects, tools, stale, home, modal, dbNodes, dbEdges, api, streamVars, sessionVars>>

\* INSERT INTO nodes ... ON CONFLICT (id) DO UPDATE: waits while another
\* transaction holds a supplied id (a row it wrote, or its index entry).
TxnUpsertNodes(c) ==
  /\ txns[c].pc = "upsertNodes"
  /\ NodeRowsFree(c, Ids(SeqToSet(txns[c].nodes)))
  /\ LET up == UpsertNodes(dbNodes \ txns[c].delN, txns[c].nodes)
     IN txns' = [txns EXCEPT ![c] =
          IF up.ok
          THEN [@ EXCEPT !.pc = "insertEdges",
                         !.putN = {r \in up.rows : r.id \in Ids(SeqToSet(txns[c].nodes))},
                         !.nodeEvents = @ \o up.events]
          ELSE Finished(@, "error", 0)]
  /\ UNCHANGED <<projects, tools, stale, home, modal, dbNodes, dbEdges, api, streamVars, sessionVars>>

\* INSERT INTO edges ...: waits while another transaction holds a supplied id.
TxnInsertEdges(c) ==
  /\ txns[c].pc = "insertEdges"
  /\ EdgeRowsFree(c, Ids(SeqToSet(txns[c].edges)))
  /\ LET ins == InsertEdges(dbEdges \ txns[c].delE, txns[c].edges)
     IN txns' = [txns EXCEPT ![c] =
          IF ins.ok
          THEN [@ EXCEPT !.pc = "updateProject",
                         !.putE = SeqToSet(txns[c].edges),
                         !.edgeEvents = @ \o ins.events]
          ELSE Finished(@, "error", 0)]
  /\ UNCHANGED <<projects, tools, stale, home, modal, dbNodes, dbEdges, api, streamVars, sessionVars>>

\* UPDATE projects SET updated_at = NOW() WHERE id = p_project_id: waits while
\* another transaction has updated the project row.
TxnUpdateProject(c) ==
  /\ txns[c].pc = "updateProject"
  /\ \A o \in Sessions \ {c} :
       ~(txns[o].pc = "commit" /\ txns[o].pid = txns[c].pid)
  /\ txns' = [txns EXCEPT ![c] = [@ EXCEPT !.pc = "commit"]]
  /\ UNCHANGED <<projects, tools, stale, home, modal, dbNodes, dbEdges, api, streamVars, sessionVars>>

\* END of save_flow: the transaction commits, its writes become visible and
\* its change events are emitted; saveFlow returns { success: true }.
TxnCommit(c) ==
  /\ txns[c].pc = "commit"
  /\ LET t == txns[c]
     IN /\ Commit([ok |-> TRUE,
                   nodes |-> {r \in dbNodes : r.id \notin NodeLocks(t)} \cup t.putN,
                   edges |-> {e \in dbEdges : e.id \notin EdgeLocks(t)} \cup t.putE,
                   nodeEvents |-> t.nodeEvents,
                   edgeEvents |-> t.edgeEvents])
        /\ txns' = [txns EXCEPT ![c] =
             Finished(t, "ok",
                      1 + (CHOOSE m \in {txns[o].order : o \in Sessions} :
                             \A o \in Sessions : txns[o].order <= m))]
  /\ UNCHANGED <<projects, tools, stale, home, modal, api, sessionVars>>

\* The graphs the two clients save: the Start node with one node and one
\* edge of the client's own, the same node and edge ids as the first graph
\* with other contents, and a graph that has lost its Start node.
TxnGraphs ==
  { [nodes |-> <<StartRow("P"),
                 NodeRow("node_1", "P", "New Node", "Enter your prompt here",
                         "default", NULL, 100, 100)>>,
     edges |-> <<EdgeRow("e1", "P", StartId("P"), "node_1", "Add Condition",
                         "Describe the condition for this transition")>>],
    [nodes |-> <<NodeRow(StartId("P"), "P", "Begin", "Greet the caller", "start",
                         NULL, 50, 50),
                 NodeRow("node_2", "P", "Lookup", "Call the tool", "tool", "t1",
                         100, 200)>>,
     edges |-> <<EdgeRow("e2", "P", StartId("P"), "node_2", "yes",
                         "The caller agrees")>>],
    [nodes |-> <<StartRow("P"),
                 NodeRow("node_1", "P", "Lookup", "Call the tool", "tool", "t1",
                         100, 200)>>,
     edges |-> <<EdgeRow("e1", "P", StartId("P"), "node_1", "yes",
                         "The caller agrees")>>],
    [nodes |-> <<NodeRow("node_1", "P", "New Node", "Enter your prompt here",
                         "default", NULL, 100, 100)>>,
     edges |-> <<>>] }

-----------------------------------------------------------------------------
(* The Flow page (FlowPage): load, local edits, save, reconciliation *)

\* v || d
OrElse(v, d) == IF v = NULL \/ v = "" THEN d ELSE v

LocalNode(id, x, y, deletable, title, prompt, ntype, tool_id, tool) ==
  [id |-> id, x |-> x, y |-> y, deletable |-> deletable, title |-> title,
   prompt |-> prompt, node_type |-> ntype, tool_id |-> tool_id, tool |-> tool]

LocalEdge(id, source, target, label, prompt) ==
  [id |-> id, source |-> source, target |-> target, label |-> label,
   prompt |-> prompt]

\* The ReactFlow node made of a stored row and the tool joined to it.
FormatNode(row, tool) ==
  LocalNode(row.id, row.position_x, row.position_y, row.node_type # "start",
            row.title, row.prompt, OrElse(row.node_type, "default"),
            OrElse(row.tool_id, NULL), tool)

\* The ReactFlow edge made of a stored row.
FormatEdge(row) ==
  LocalEdge(row.id, row.source_id, row.target_id, row.label, row.prompt)

\* formattedNodes of handleSave
StoredNode(node, pid) ==
  NodeRow(node.id, pid, node.title, node.prompt, OrElse(node.node_type, "default"),
          OrElse(node.tool_id, NULL), node.x, node.y)

\* formattedEdges of handleSave
StoredEdge(edge, pid) ==
  EdgeRow(edge.id, pid, edge.source, edge.target, OrElse(edge.label, ""),
          OrElse(edge.prompt, ""))

\* The page renders the canvas and its buttons.
UiReady(s) == projectId[s] # NULL /\ ~isLoading[s] /\ error[s] = NULL

InFlight(save) == save.phase \in {"rpc", "rpcOk", "rpcErr", "updateProject"}

MaxEdits == 2

\* History: a local edit reached the model after the snapshot of every save
\* still in flight.
MarkEdited(s) ==
  /\ edited' = [edited EXCEPT ![s] = TRUE]
  /\ saves' = [saves EXCEPT ![s] =
       [i \in DOMAIN @ |-> IF InFlight(@[i])
                           THEN [@[i] EXCEPT !.editedAfter = TRUE] ELSE @[i]]]

\* A local handler sets nodes and edges and then setHasUnsavedChanges(true).
LocalMutation(s, newNodes, newEdges) ==
  /\ UiReady(s)
  /\ nodes' = [nodes EXCEPT ![s] = newNodes]
  /\ edges' = [edges EXCEPT ![s] = newEdges]
  /\ hasUnsavedChanges' = [hasUnsavedChanges EXCEPT ![s] = TRUE]
  /\ IF newNodes # nodes[s] \/ newEdges # edges[s]
     THEN MarkEdited(s)
     ELSE UNCHANGED <<edited, saves>>
  /\ used.edits[s] < MaxEdits
  /\ used' = [used EXCEPT !.edits[s] = @ + 1]
  /\ UNCHANGED <<storeVars, stale, home, modal, api, streamVars, projectId, isLoading, error, load,
                 subVars, nodeFetches>>

\* useEffect([projectId]) on mount: loadProjectData starts and both
\* subscriptions are opened.
Mount(s, p) ==
  /\ projectId[s] = NULL
  /\ projectId' = [projectId EXCEPT ![s] = p]
  /\ isLoading' = [isLoading EXCEPT ![s] = TRUE]
  /\ error' = [error EXCEPT ![s] = NULL]
  /\ load' = [load EXCEPT ![s] = "fetchProject"]
  /\ nodesSubscription' = [nodesSubscription EXCEPT ![s] = p]
  /\ edgesSubscription' = [edgesSubscription EXCEPT ![s] = p]
  /\ UNCHANGED <<storeVars, stale, home, modal, api, streamVars, localVars, saves, edited, clock,
                 nodeFetches, used>>

\* catch (err) { setError(err.message) } finally { setIsLoading(false) }
LoadFailed(s, message) ==
  /\ error' = [error EXCEPT ![s] = message]
  /\ isLoading' = [isLoading EXCEPT ![s] = FALSE]
  /\ load' = [load EXCEPT ![s] = "idle"]

\* await fetchProjectById(projectId) returns (.single(): no row is an error).
LoadProject(s, fails) ==
  /\ load[s] = "fetchProject"
  /\ IF fails \/ projectId[s] \notin projects
     THEN LoadFailed(s, "fetchProjectById")
     ELSE /\ load' = [load EXCEPT ![s] = "fetchNodes"]
          /\ UNCHANGED <<error, isLoading>>
  /\ UNCHANGED <<storeVars, stale, home, modal, api, streamVars, projectId, localVars, saves,
                 edited, clock, subVars, nodeFetches, used>>

\* await fetchNodesByProject(projectId) returns; setNodes(formattedNodes).
LoadNodes(s, fails) ==
  /\ load[s] = "fetchNodes"
  /\ IF fails
     THEN LoadFailed(s, "fetchNodesByProject") /\ UNCHANGED nodes
     ELSE /\ nodes' = [nodes EXCEPT ![s] =
               LET got == SetToSeq(fetchNodesByProject(projectId[s]))
               IN [i \in DOMAIN got |-> FormatNode(got[i].row, got[i].tool)]]
          /\ load' = [load EXCEPT ![s] = "fetchEdges"]
          /\ UNCHANGED <<error, isLoading>>
  /\ UNCHANGED <<storeVars, stale, home, modal, api, streamVars, projectId, edges,
                 hasUnsavedChanges, saves, edited, clock, subVars, nodeFetches,
                 used>>

\* await fetchEdgesByProject(projectId) returns; setEdges(formattedEdges);
\* setHasUnsavedChanges(false).
LoadEdges(s, fails) ==
  /\ load[s] = "fetchEdges"
  /\ IF fails
     THEN LoadFailed(s, "fetchEdgesByProject")
          /\ UNCHANGED <<edges, hasUnsavedChanges, edited>>
     ELSE /\ edges' = [edges EXCEPT ![s] =
               LET got == SetToSeq(fetchEdgesByProject(projectId[s]))
               IN [i \in DOMAIN got |-> FormatEdge(got[i])]]
          /\ hasUnsavedChanges' = [hasUnsavedChanges EXCEPT ![s] = FALSE]
          /\ edited' = [edited EXCEPT ![s] = FALSE]
          /\ isLoading' = [isLoading EXCEPT ![s] = FALSE]
          /\ load' = [load EXCEPT ![s] = "idle"]
          /\ UNCHANGED error
  /\ UNCHANGED <<storeVars, stale, home, modal, api, streamVars, projectId, nodes, saves, clock,
                 subVars, nodeFetches, used>>

\* applyNodeChanges(changes, nds) of @xyflow/react for one change.
applyNodeChanges(change, nds) ==
  CASE change.type = "position" ->
         [i \in DOMAIN nds |-> IF nds[i].id = change.id
                               THEN [nds[i] EXCEPT !.x = change.x, !.y = change.y]
                               ELSE nds[i]]
    [] change.type = "remove" -> SelectSeq(nds, LAMBDA n : n.id # change.id)
    [] OTHER -> nds

\* The changes the canvas emits: a drag of a node, and the removal of a node
\* that is not marked deletable: false.
NodeChanges(s) ==
  {[type |-> "position", id |-> n.id, x |-> 200, y |-> 200] : n \in SeqToSet(nodes[s])}
    \cup {[type |-> "remove", id |-> n.id] :
            n \in {m \in SeqToSet(nodes[s]) : m.deletable}}

onNodesChange(s, change) ==
  LocalMutation(s, applyNodeChanges(change, nodes[s]), edges[s]) /\ UNCHANGED clock

\* applyEdgeChanges(changes, eds) of @xyflow/react for one change.
applyEdgeChanges(change, eds) ==
  CASE change.type = "remove" -> SelectSeq(eds, LAMBDA e : e.id # change.id)
    [] OTHER -> eds

EdgeChanges(s) ==
  {[type |-> "remove", id |-> e.id] : e \in SeqToSet(edges[s])}

onEdgesChange(s, change) ==
  LocalMutation(s, nodes[s], applyEdgeChanges(change, edges[s])) /\ UNCHANGED clock

\* addEdge(newEdge, eds) of @xyflow/react: the id is derived from the
\* connection (source handle "a"), and a connection that exists is not added.
addEdge(newEdge, eds) ==
  IF \E i \in DOMAIN eds : eds[i].source = newEdge.source /\ eds[i].target = newEdge.target
  THEN eds
  ELSE Append(eds, [newEdge EXCEPT
         !.id = "xy-edge__" \o newEdge.source \o "a-" \o newEdge.target])

onConnect(s, source, target) ==
  /\ LocalMutation(s, nodes[s],
       addEdge(LocalEdge(NULL, source, target, "Add Condition",
                         "Describe the condition for this transition"), edges[s]))
  /\ UNCHANGED clock

\* The form data NodeEditModal submits for node: title and node type are
\* disabled for a Start node; the tool select is rendered for a Tool node
\* when tools are listed.
FormData(node) ==
  IF node.node_type = "start"
  THEN {[title |-> OrElse(node.title, ""), prompt |-> "Greet the caller",
         node_type |-> "start", tool_id |-> OrElse(node.tool_id, NULL)]}
  ELSE {[title |-> "Lookup", prompt |-> "Call the tool", node_type |-> "tool",
         tool_id |-> "t1"]}

handleNodeSave(s, nodeId, data) ==
  /\ LocalMutation(s,
       [i \in DOMAIN nodes[s] |->
          IF nodes[s][i].id = nodeId
          THEN [nodes[s][i] EXCEPT !.title = data.title, !.prompt = data.prompt,
                                   !.node_type = data.node_type,
                                   !.tool_id = data.tool_id]
          ELSE nodes[s][i]],
       edges[s])
  /\ UNCHANGED clock

handleEdgeSave(s, edgeId, formData) ==
  /\ LocalMutation(s, nodes[s],
       [i \in DOMAIN edges[s] |->
          IF edges[s][i].id = edgeId
          THEN [edges[s][i] EXCEPT !.label = formData.label,
                                   !.prompt = formData.prompt]
          ELSE edges[s][i]])
  /\ UNCHANGED clock

\* handleAddNode: the id is `node_${Date.now()}`; the clock may or may not
\* have advanced since it was last read.
handleAddNode(s, now) ==
  /\ now \in {clock, clock + 1} /\ now >= 1
  /\ clock' = now
  /\ LocalMutation(s,
       Append(nodes[s], LocalNode("node_" \o ToString(now), 100, 100, TRUE,
                                  "New Node", "Enter your prompt here",
                                  "default", NULL, NULL)),
       edges[s])

MaxSaves == 1

\* A broken handler: the catch block calls saveFlow again.
SaveFailedRetry(save) ==
  [save EXCEPT !.phase = "rpc", !.calls = 2, !.rpcs = 2]

\* catch (err) { console.error('Error saving flow:', err) }: handleSave
\* ends; no state of the page is set.
SaveFailed(save) ==
  [save EXCEPT !.phase = "failed", !.nodes = <<>>, !.edges = <<>>,
               !.editedAfter = FALSE]

\* handleSave up to the first await that yields: the snapshot is formatted
\* and saveFlow is called; saveFlow answers an error at once when the
\* snapshot has no Start node, and otherwise sends the save_flow RPC.
handleSave(s) ==
  /\ UiReady(s)
  /\ hasUnsavedChanges[s]               \* the Save button is disabled otherwise
  /\ Len(saves[s]) < MaxSaves
  /\ LET ns == [i \in DOMAIN nodes[s] |-> StoredNode(nodes[s][i], projectId[s])]
         es == [i \in DOMAIN edges[s] |-> StoredEdge(edges[s][i], projectId[s])]
         call == [pid |-> projectId[s], nodes |-> ns, edges |-> es,
                  phase |-> "rpc", calls |-> 1, rpcs |-> 1, result |-> "none",
                  editedAfter |-> FALSE]
     IN saves' = [saves EXCEPT ![s] = Append(@,
          IF hasStartNode(ns) THEN call
          ELSE SaveFailed([call EXCEPT !.rpcs = 0, !.result = "rejected"]))]
  /\ UNCHANGED <<storeVars, stale, home, modal, api, streamVars, projectId, localVars, isLoading,
                 error, load, edited, clock, subVars, nodeFetches, used>>

\* handleSupabaseError(error) of ./supabase: the tagged result that carries
\* the reason of the failure.
handleSupabaseError(reason) == [success |-> FALSE, error |-> reason]

\* What saveFlow answers once the RPC has ended with result:
\* if (transactionError) throw transactionError; return { success: true }
\* } catch (error) { return handleSupabaseError(error) }
SaveFlowAnswer(result) ==
  IF result = "ok" THEN [success |-> TRUE, error |-> NULL]
  ELSE handleSupabaseError(result)

\* The request of a save has left the client: the response is awaited.
Sent(save, result) ==
  [save EXCEPT !.phase = IF SaveFlowAnswer(result).error = NULL
                         THEN "rpcOk" ELSE "rpcErr",
               !.result = result, !.nodes = <<>>, !.edges = <<>>]

\* The store executes the save_flow RPC of save i of session s, or the
\* request is lost on the way.
SaveFlowRpc(s, i, lost) ==
  /\ i \in DOMAIN saves[s]
  /\ saves[s][i].phase = "rpc"
  /\ IF lost
     THEN /\ saves' = [saves EXCEPT ![s][i] = Sent(@, "lost")]
          /\ UNCHANGED <<dbNodes, dbEdges, streamVars>>
     ELSE LET res == save_flow(saves[s][i].pid, saves[s][i].nodes, saves[s][i].edges)
          IN /\ Commit(res)
             /\ saves' = [saves EXCEPT ![s][i] =
                            Sent(@, IF res.ok THEN "ok" ELSE "error")]
  /\ UNCHANGED <<projects, tools, txns, stale, home, modal, api, projectId, localVars, isLoading, error,
                 load, edited, clock, subVars, nodeFetches, used>>

\* A broken handler: the error of saveFlow is not read.
AfterSaveFlowIgnoringError(save) == [save EXCEPT !.phase = "updateProject"]

\* const { error } = await saveFlow(...); if (error) throw new Error(error);
\* await updateProject(...)
AfterSaveFlow(save) ==
  IF save.phase = "rpcErr" THEN SaveFailed(save)
  ELSE [save EXCEPT !.phase = "updateProject"]

\* await saveFlow(...) returns: an error is thrown into the catch block,
\* otherwise updateProject is called and awaited.
SaveFlowReturn(s, i) ==
  /\ i \in DOMAIN saves[s]
  /\ saves[s][i].phase \in {"rpcOk", "rpcErr"}
  /\ saves' = [saves EXCEPT ![s][i] = AfterSaveFlow(@)]
  /\ UNCHANGED <<storeVars, stale, home, modal, api, streamVars, projectId, localVars, isLoading,
                 error, load, edited, clock, subVars, nodeFetches, used>>

\* The value handleSave gives the dirty flag once updateProject has returned.
DirtyAfterSave(save, dirty) == FALSE

\* await updateProject(...) returns (its result is not read);
\* setHasUnsavedChanges(false).
UpdateProjectReturn(s, i) ==
  /\ i \in DOMAIN saves[s]
  /\ saves[s][i].phase = "updateProject"
  /\ saves' = [saves EXCEPT ![s][i] =
       [@ EXCEPT !.phase = "succeeded", !.editedAfter = FALSE]]
  /\ hasUnsavedChanges' = [hasUnsavedChanges EXCEPT ![s] =
       DirtyAfterSave(saves[s][i], @)]
  /\ edited' = [edited EXCEPT ![s] = saves[s][i].editedAfter]
  /\ UNCHANGED <<storeVars, stale, home, modal, api, streamVars, projectId, nodes, edges, isLoading,
                 error, load, clock, subVars, nodeFetches, used>>

\* A broken callback: an entity that exists locally is kept as it is.
UpsertLocalKeepingExisting(prev, updated) ==
  IF \E i \in DOMAIN prev : prev[i].id = updated.id THEN prev
  ELSE Append(prev, updated)

\* setNodes of the node subscription callback for INSERT / UPDATE.
UpsertLocal(prev, updated) ==
  IF \E i \in DOMAIN prev : prev[i].id = updated.id
  THEN [i \in DOMAIN prev |-> IF prev[i].id = updated.id THEN updated ELSE prev[i]]
  ELSE Append(prev, updated)

\* A broken callback: DELETE drops the first entity whatever its id.
RemoveLocalHead(prev, id) == IF prev = <<>> THEN prev ELSE Tail(prev)

\* setNodes / setEdges of the subscription callbacks for DELETE.
RemoveLocal(prev, id) == SelectSeq(prev, LAMBDA x : x.id # id)

\* A broken callback: a DELETE also removes the edges attached to the node.
NodeEventRemovingEdges(s) ==
  /\ nodeEvents[s] # <<>>
  /\ nodeEvents' = [nodeEvents EXCEPT ![s] = Tail(@)]
  /\ LET ev == Head(nodeEvents[s])
     IN IF ev.eventType = "DELETE"
        THEN /\ nodes' = [nodes EXCEPT ![s] = RemoveLocal(@, ev.rec.id)]
             /\ edges' = [edges EXCEPT ![s] =
                  SelectSeq(@, LAMBDA e : e.source # ev.rec.id /\ e.target # ev.rec.id)]
             /\ UNCHANGED nodeFetches
        ELSE /\ nodeFetches' = [nodeFetches EXCEPT ![s] = Append(@, ev.rec)]
             /\ UNCHANGED <<nodes, edges>>
  /\ UNCHANGED <<storeVars, stale, home, modal, api, edgeEvents, projectId,
                 hasUnsavedChanges, isLoading, error, load, saves, edited, clock,
                 subVars, used>>

\* The node subscription callback is invoked with the next event: a DELETE
\* is applied at once, an INSERT or UPDATE first awaits fetchNodesByProject.
NodeEvent(s) ==
  /\ nodeEvents[s] # <<>>
  /\ nodeEvents' = [nodeEvents EXCEPT ![s] = Tail(@)]
  /\ LET ev == Head(nodeEvents[s])
     IN IF ev.eventType = "DELETE"
        THEN /\ nodes' = [nodes EXCEPT ![s] = RemoveLocal(@, ev.rec.id)]
             /\ UNCHANGED nodeFetches
        ELSE /\ nodeFetches' = [nodeFetches EXCEPT ![s] = Append(@, ev.rec)]
             /\ UNCHANGED nodes
  /\ UNCHANGED <<storeVars, stale, home, modal, api, edgeEvents, projectId, edges,
                 hasUnsavedChanges, isLoading, error, load, saves, edited, clock,
                 subVars, used>>

\* fullNode?.tool: the tool joined to the node in the fetched list, undefined
\* when the fetch failed or the node is not in it.
FullNodeTool(p, id, fails) ==
  IF fails \/ ~(\E n \in fetchNodesByProject(p) : n.row.id = id) THEN NULL
  ELSE (CHOOSE n \in fetchNodesByProject(p) : n.row.id = id).tool

\* The awaited fetchNodesByProject of handler k returns (in any order).
NodeFetchReturn(s, k, fails) ==
  /\ k \in DOMAIN nodeFetches[s]
  /\ LET newRecord == nodeFetches[s][k]
         updatedNode == FormatNode(newRecord,
                          FullNodeTool(nodesSubscription[s], newRecord.id, fails))
     IN nodes' = [nodes EXCEPT ![s] = UpsertLocal(@, updatedNode)]
  /\ nodeFetches' = [nodeFetches EXCEPT ![s] =
       SubSeq(@, 1, k - 1) \o SubSeq(@, k + 1, Len(@))]
  /\ UNCHANGED <<storeVars, stale, home, modal, api, streamVars, projectId, edges,
                 hasUnsavedChanges, isLoading, error, load, saves, edited, clock,
                 subVars, used>>

\* A broken callback: the edge callback also marks the graph as saved.
EdgeEventMarkingSaved(s) ==
  /\ edgeEvents[s] # <<>>
  /\ edgeEvents' = [edgeEvents EXCEPT ![s] = Tail(@)]
  /\ LET ev == Head(edgeEvents[s])
     IN edges' = [edges EXCEPT ![s] =
          IF ev.eventType = "DELETE" THEN RemoveLocal(@, ev.rec.id)
          ELSE UpsertLocal(@, FormatEdge(ev.rec))]
  /\ hasUnsavedChanges' = [hasUnsavedChanges EXCEPT ![s] = FALSE]
  /\ UNCHANGED <<storeVars, stale, home, modal, api, nodeEvents, projectId, nodes, isLoading, error,
                 load, saves, edited, clock, subVars, nodeFetches, used>>

\* A broken callback: only DELETE events are applied.
EdgeEventIgnoringUpserts(s) ==
  /\ edgeEvents[s] # <<>>
  /\ edgeEvents' = [edgeEvents EXCEPT ![s] = Tail(@)]
  /\ LET ev == Head(edgeEvents[s])
     IN edges' = [edges EXCEPT ![s] =
          IF ev.eventType = "DELETE" THEN RemoveLocal(@, ev.rec.id) ELSE @]
  /\ UNCHANGED <<storeVars, stale, home, modal, api, nodeEvents, projectId, nodes,
                 hasUnsavedChanges, isLoading, error, load, saves, edited, clock,
                 subVars, nodeFetches, used>>

\* The edge subscription callback is invoked with the next event.
EdgeEvent(s) ==
  /\ edgeEvents[s] # <<>>
  /\ edgeEvents' = [edgeEvents EXCEPT ![s] = Tail(@)]
  /\ LET ev == Head(edgeEvents[s])
     IN edges' = [edges EXCEPT ![s] =
          IF ev.eventType = "DELETE" THEN RemoveLocal(@, ev.rec.id)
          ELSE UpsertLocal(@, FormatEdge(ev.rec))]
  /\ UNCHANGED <<storeVars, stale, home, modal, api, nodeEvents, projectId, nodes,
                 hasUnsavedChanges, isLoading, error, load, saves, edited, clock,
                 subVars, nodeFetches, used>>

-----------------------------------------------------------------------------
(* Initial state: the schema is installed, one tool exists, no project, no *)
(* Flow page is mounted.                                                   *)

Init ==
  /\ projects = {}
  /\ tools = {"t1"}
  /\ txns = [c \in Sessions |-> NoTxn]
  /\ stale = [s \in Sessions |-> <<>>]
  /\ home = NoHome
  /\ modal = NoModal
  /\ dbNodes = {}
  /\ dbEdges = {}
  /\ api = NoCall
  /\ projectId = [s \in Sessions |-> NULL]
  /\ nodes = [s \in Sessions |-> <<>>]
  /\ edges = [s \in Sessions |-> <<>>]
  /\ hasUnsavedChanges = [s \in Sessions |-> FALSE]
  /\ isLoading = [s \in Sessions |-> TRUE]
  /\ error = [s \in Sessions |-> NULL]
  /\ load = [s \in Sessions |-> "idle"]
  /\ saves = [s \in Sessions |-> <<>>]
  /\ edited = [s \in Sessions |-> FALSE]
  /\ clock = 0
  /\ nodesSubscription = [s \in Sessions |-> NULL]
  /\ edgesSubscription = [s \in Sessions |-> NULL]
  /\ nodeEvents = [s \in Sessions |-> <<>>]
  /\ edgeEvents = [s \in Sessions |-> <<>>]
  /\ nodeFetches = [s \in Sessions |-> <<>>]
  /\ used = [edits |-> [s \in Sessions |-> 0], remote |-> 0]

\* The store under direct adapter calls with arbitrary payloads.
StoreNext ==
  \/ \E p \in Projects : createProject(p)
  \/ \E p \in Projects, ns \in Arrays(ApiNodeRows, MaxApiNodes),
        es \in Arrays(ApiEdgeRows, MaxApiEdges) : saveFlow(p, ns, es)
  \/ \E r \in ApiNodeRows : createNode(r)
  \/ \E id \in Ids(ApiNodeRows), u \in ApiUpdates, f \in BOOLEAN :
        updateNode(id, u, f)
  \/ \E id \in Ids(ApiNodeRows), f \in BOOLEAN : deleteNode(id, f)
  \/ \E p \in Projects : deleteProject(p)
  \/ \E t \in {"t1", "t2"} : deleteTool(t)
  \/ ApiReturn

SpecStore == Init /\ [][StoreNext]_vars

\* One Flow page session on project P and its store: the steps of session s.
SessionStep(s) ==
  \/ Mount(s, "P")
  \/ \E fails \in BOOLEAN : LoadProject(s, fails)
  \/ \E fails \in BOOLEAN : LoadNodes(s, fails)
  \/ \E fails \in BOOLEAN : LoadEdges(s, fails)
  \/ \E c \in NodeChanges(s) : onNodesChange(s, c)
  \/ \E c \in EdgeChanges(s) : onEdgesChange(s, c)
  \/ \E n \in SeqToSet(nodes[s]) : onConnect(s, StartId("P"), n.id)
  \/ \E n \in SeqToSet(nodes[s]) : \E d \in FormData(n) :
       handleNodeSave(s, n.id, d)
  \/ \E e \in SeqToSet(edges[s]) :
       handleEdgeSave(s, e.id, [label |-> "yes", prompt |-> "The caller agrees"])
  \/ \E now \in {clock, clock + 1} : handleAddNode(s, now)
  \/ handleSave(s)
  \/ \E i \in 1..MaxSaves, lost \in BOOLEAN : SaveFlowRpc(s, i, lost)
  \/ \E i \in 1..MaxSaves : SaveFlowReturn(s, i)
  \/ \E i \in 1..MaxSaves : UpdateProjectReturn(s, i)
  \/ NodeEvent(s)
  \/ \E k \in DOMAIN nodeFetches[s], fails \in BOOLEAN :
       NodeFetchReturn(s, k, fails)
  \/ EdgeEvent(s)

SessionNext == SessionStep("A")

\* Project P exists when the page is opened. Its Start row is as the
\* trigger made it, or has lost its kind: createProject, then
\* updateNode('start_P', {node_type: 'default'}) whose isStartNode select
\* failed, leaves the second store.
InitSession ==
  /\ projects = {"P"}
  /\ tools = {"t1"}
  /\ txns = [c \in Sessions |-> NoTxn]
  /\ stale = [s \in Sessions |-> <<>>]
  /\ home = NoHome
  /\ modal = NoModal
  /\ dbNodes \in {{StartRow("P")}, {[StartRow("P") EXCEPT !.node_type = "default"]}}
  /\ dbEdges = {}
  /\ api = NoCall
  /\ projectId = [s \in Sessions |-> NULL]
  /\ nodes = [s \in Sessions |-> <<>>]
  /\ edges = [s \in Sessions |-> <<>>]
  /\ hasUnsavedChanges = [s \in Sessions |-> FALSE]
  /\ isLoading = [s \in Sessions |-> TRUE]
  /\ error = [s \in Sessions |-> NULL]
  /\ load = [s \in Sessions |-> "idle"]
  /\ saves = [s \in Sessions |-> <<>>]
  /\ edited = [s \in Sessions |-> FALSE]
  /\ clock = 0
  /\ nodesSubscription = [s \in Sessions |-> NULL]
  /\ edgesSubscription = [s \in Sessions |-> NULL]
  /\ nodeEvents = [s \in Sessions |-> <<>>]
  /\ edgeEvents = [s \in Sessions |-> <<>>]
  /\ nodeFetches = [s \in Sessions |-> <<>>]
  /\ used = [edits |-> [s \in Sessions |-> 0], remote |-> 0]

SpecSession == InitSession /\ [][SessionNext]_vars

-----------------------------------------------------------------------------
(* Reconciliation: one Flow page on project P while other clients write to *)
(* the store through the adapter, and the feed delivers at least once.     *)

\* The writes of other clients and the redeliveries of the feed, together.
MaxRemoteOps == 2

\* A write of another client is committed: the tables change and the
\* subscriptions of the session receive its events.
RemoteCommit(res) ==
  /\ used.remote < MaxRemoteOps
  /\ res.ok
  /\ Commit(res)
  /\ used' = [used EXCEPT !.remote = @ + 1]
  /\ UNCHANGED <<projects, tools, txns, stale, home, modal, api, projectId, localVars, isLoading, error,
                 load, saves, edited, clock, subVars, nodeFetches>>

\* Another client's createNode(nodeData) succeeds.
RemoteCreateNode(nodeData) == RemoteCommit(Statement(InsertNode(nodeData)))

\* Another client's updateNode(nodeId, updates) succeeds.
RemoteUpdateNode(nodeId, updates, selectFails) ==
  RemoteCommit(Statement(UpdateNodeRow(nodeId,
                 EffectiveUpdates(nodeId, updates, selectFails))))

\* Another client's deleteNode(nodeId) succeeds.
RemoteDeleteNode(nodeId) ==
  /\ ~isStartNode(nodeId, FALSE)
  /\ nodeId \in Ids(dbNodes)
  /\ RemoteCommit(Statement(DeleteNodeRow(nodeId)))

\* Another client's saveFlow(projectId, { nodes, edges }) succeeds.
RemoteSaveFlow(p, ns, es) ==
  /\ hasStartNode(ns)
  /\ RemoteCommit(save_flow(p, ns, es))

\* At-least-once delivery: the event at the head of the node stream of
\* session s is delivered a second time.
RedeliverNodeEvent(s) ==
  /\ used.remote < MaxRemoteOps
  /\ nodeEvents[s] # <<>>
  /\ nodeEvents' = [nodeEvents EXCEPT ![s] = <<Head(@)>> \o @]
  /\ used' = [used EXCEPT !.remote = @ + 1]
  /\ UNCHANGED <<storeVars, stale, home, modal, api, edgeEvents, projectId, localVars, isLoading,
                 error, load, saves, edited, clock, subVars, nodeFetches>>

\* At-least-once delivery on the edge stream.
RedeliverEdgeEvent(s) ==
  /\ used.remote < MaxRemoteOps
  /\ edgeEvents[s] # <<>>
  /\ edgeEvents' = [edgeEvents EXCEPT ![s] = <<Head(@)>> \o @]
  /\ used' = [used EXCEPT !.remote = @ + 1]
  /\ UNCHANGED <<storeVars, stale, home, modal, api, nodeEvents, projectId, localVars, isLoading,
                 error, load, saves, edited, clock, subVars, nodeFetches>>

\* What the other clients write: a node next to the Start node, as a Tool
\* node or as a second Start node; the Start node renamed or given another
\* node_type; a graph with and without an edge.
RemoteNodeRows ==
  { NodeRow("node_1", "P", "New Node", "Enter your prompt here", "start", NULL, 100, 100),
    NodeRow("node_1", "P", "Lookup", "Call the tool", "tool", "t1", 100, 200) }

RemoteUpdates == { [title |-> "Begin"], [node_type |-> "default"] }

RemoteGraphs ==
  { [nodes |-> <<StartRow("P")>>, edges |-> <<>>],
    [nodes |-> <<StartRow("P")>>,
     edges |-> <<EdgeRow("e1", "P", StartId("P"), StartId("P"), "Add Condition",
                         "Describe the condition for this transition")>>] }

ReconcileNext ==
  \/ Mount("A", "P")
  \/ LoadProject("A", FALSE)
  \/ LoadNodes("A", FALSE)
  \/ LoadEdges("A", FALSE)
  \/ \E c \in {x \in NodeChanges("A") : x.type = "remove"} : onNodesChange("A", c)
  \/ \E n \in SeqToSet(nodes["A"]) : onConnect("A", StartId("P"), n.id)
  \/ \E n \in SeqToSet(nodes["A"]) : \E d \in FormData(n) :
       handleNodeSave("A", n.id, d)
  \/ \E e \in SeqToSet(edges["A"]) :
       handleEdgeSave("A", e.id, [label |-> "yes", prompt |-> "The caller agrees"])
  \/ handleAddNode("A", 1)
  \/ \E r \in RemoteNodeRows : RemoteCreateNode(r)
  \/ \E id \in Ids(dbNodes), u \in RemoteUpdates, f \in BOOLEAN :
       RemoteUpdateNode(id, u, f)
  \/ \E id \in Ids(dbNodes) : RemoteDeleteNode(id)
  \/ \E g \in RemoteGraphs : RemoteSaveFlow("P", g.nodes, g.edges)
  \/ RedeliverNodeEvent("A")
  \/ RedeliverEdgeEvent("A")
  \/ NodeEvent("A")
  \/ \E k \in DOMAIN nodeFetches["A"], fails \in BOOLEAN :
       NodeFetchReturn("A", k, fails)
  \/ EdgeEvent("A")

\* Project P exists with its Start node as the trigger made it.
InitReconcile ==
  /\ InitSession
  /\ dbNodes = {StartRow("P")}

SpecReconcile == InitReconcile /\ [][ReconcileNext]_vars

-----------------------------------------------------------------------------
(* Two Flow pages open on project P: A edits and saves, B only listens *)

\* Both pages have mounted and finished loading project P, whose graph is
\* the Start node: the state LoadEdges leaves in each session.
InitShare ==
  /\ projects = {"P"}
  /\ tools = {"t1"}
  /\ txns = [c \in Sessions |-> NoTxn]
  /\ stale = [s \in Sessions |-> <<>>]
  /\ home = NoHome
  /\ modal = NoModal
  /\ dbNodes = {StartRow("P")}
  /\ dbEdges = {}
  /\ api = NoCall
  /\ projectId = [s \in Sessions |-> "P"]
  /\ nodes = [s \in Sessions |-> <<FormatNode(StartRow("P"), NULL)>>]
  /\ edges = [s \in Sessions |-> <<>>]
  /\ hasUnsavedChanges = [s \in Sessions |-> FALSE]
  /\ isLoading = [s \in Sessions |-> FALSE]
  /\ error = [s \in Sessions |-> NULL]
  /\ load = [s \in Sessions |-> "idle"]
  /\ saves = [s \in Sessions |-> <<>>]
  /\ edited = [s \in Sessions |-> FALSE]
  /\ clock = 0
  /\ nodesSubscription = [s \in Sessions |-> "P"]
  /\ edgesSubscription = [s \in Sessions |-> "P"]
  /\ nodeEvents = [s \in Sessions |-> <<>>]
  /\ edgeEvents = [s \in Sessions |-> <<>>]
  /\ nodeFetches = [s \in Sessions |-> <<>>]
  /\ used = [edits |-> [s \in Sessions |-> 0], remote |-> 0]

ShareNext ==
  \/ \E n \in SeqToSet(nodes["A"]) : onConnect("A", StartId("P"), n.id)
  \/ \E e \in SeqToSet(edges["A"]) :
       handleEdgeSave("A", e.id, [label |-> "yes", prompt |-> "The caller agrees"])
  \/ handleSave("A")
  \/ \E i \in 1..MaxSaves, lost \in BOOLEAN : SaveFlowRpc("A", i, lost)
  \/ \E i \in 1..MaxSaves : SaveFlowReturn("A", i)
  \/ \E i \in 1..MaxSaves : UpdateProjectReturn("A", i)
  \/ \E c \in EdgeChanges("B") : onEdgesChange("B", c)
  \/ \E s \in Sessions : NodeEvent(s)
  \/ \E s \in Sessions : \E k \in DOMAIN nodeFetches[s], fails \in BOOLEAN :
       NodeFetchReturn(s, k, fails)
  \/ \E s \in Sessions : EdgeEvent(s)

SpecShare == InitShare /\ [][ShareNext]_vars

\* The browser's event loop runs the callback of a delivered edge event.
FairShare == SpecShare /\ WF_vars(EdgeEvent("B"))

-----------------------------------------------------------------------------
(* One Flow page whose earlier save is still being echoed *)

\* The node the user added before the first save.
AddedRow ==
  NodeRow("node_1", "P", "New Node", "Enter your prompt here", "default", NULL,
          100, 100)

\* Session A added node_1 and saved: save_flow has committed Start and
\* node_1, handleSave has returned and cleared the dirty flag, and the two
\* events of that commit are delivered but their callbacks have not run.
\* The record of that finished save is not kept in saves.
InitEcho ==
  /\ projects = {"P"}
  /\ tools = {"t1"}
  /\ txns = [c \in Sessions |-> NoTxn]
  /\ stale = [s \in Sessions |-> <<>>]
  /\ home = NoHome
  /\ modal = NoModal
  /\ dbNodes = {StartRow("P"), AddedRow}
  /\ dbEdges = {}
  /\ api = NoCall
  /\ projectId = [s \in Sessions |-> IF s = "A" THEN "P" ELSE NULL]
  /\ nodes = [s \in Sessions |->
       IF s = "A" THEN <<FormatNode(StartRow("P"), NULL), FormatNode(AddedRow, NULL)>>
       ELSE <<>>]
  /\ edges = [s \in Sessions |-> <<>>]
  /\ hasUnsavedChanges = [s \in Sessions |-> FALSE]
  /\ isLoading = [s \in Sessions |-> s # "A"]
  /\ error = [s \in Sessions |-> NULL]
  /\ load = [s \in Sessions |-> "idle"]
  /\ saves = [s \in Sessions |-> <<>>]
  /\ edited = [s \in Sessions |-> FALSE]
  /\ clock = 1
  /\ nodesSubscription = [s \in Sessions |-> IF s = "A" THEN "P" ELSE NULL]
  /\ edgesSubscription = [s \in Sessions |-> IF s = "A" THEN "P" ELSE NULL]
  /\ nodeEvents = [s \in Sessions |->
       IF s = "A" THEN <<Event("UPDATE", StartRow("P")), Event("INSERT", AddedRow)>>
       ELSE <<>>]
  /\ edgeEvents = [s \in Sessions |-> <<>>]
  /\ nodeFetches = [s \in Sessions |-> <<>>]
  /\ used = [edits |-> [s \in Sessions |-> 0], remote |-> 0]

EchoNext ==
  \/ \E c \in {x \in NodeChanges("A") : x.type = "remove"} : onNodesChange("A", c)
  \/ \E n \in SeqToSet(nodes["A"]) : onConnect("A", StartId("P"), n.id)
  \/ handleSave("A")
  \/ \E i \in 1..MaxSaves, lost \in BOOLEAN : SaveFlowRpc("A", i, lost)
  \/ \E i \in 1..MaxSaves : SaveFlowReturn("A", i)
  \/ \E i \in 1..MaxSaves : UpdateProjectReturn("A", i)
  \/ NodeEvent("A")
  \/ \E k \in DOMAIN nodeFetches["A"] : NodeFetchReturn("A", k, FALSE)
  \/ EdgeEvent("A")

SpecEcho == InitEcho /\ [][EchoNext]_vars

-----------------------------------------------------------------------------
(* Two clients saving project P at the same time *)

\* Project P exists with its Start node; no page is open.
InitTxn ==
  /\ InitSession
  /\ dbNodes = {StartRow("P")}

TxnNext ==
  \/ \E c \in Sessions, g \in TxnGraphs : TxnBegin(c, "P", g.nodes, g.edges)
  \/ \E c \in Sessions : TxnDeleteNodes(c)
  \/ \E c \in Sessions : TxnDeleteEdges(c)
  \/ \E c \in Sessions : TxnUpsertNodes(c)
  \/ \E c \in Sessions : TxnInsertEdges(c)
  \/ \E c \in Sessions : TxnUpdateProject(c)
  \/ \E c \in Sessions : TxnCommit(c)

SpecTxn == InitTxn /\ [][TxnNext]_vars

-----------------------------------------------------------------------------
(* Leaving a project: the page is closed, or its route changes to another *)
(* project while the same Flow component stays mounted                    *)

\* projectId of a page that has been unmounted.
Closed == "closed"

\* An operation or channel that outlives the project it was started for.
Left(kind, pid, phase, rec) ==
  [kind |-> kind, pid |-> pid, phase |-> phase, rec |-> rec]

\* A broken cleanup: only the node channel is unsubscribed.
CleanupNodesOnly(nodesSub, edgesSub) ==
  <<Left("channel", edgesSub, "edges", NULL)>>

\* The cleanup of the subscription effect, as the channels it leaves open:
\* nodesSubscription.unsubscribe(); edgesSubscription.unsubscribe()
SubscriptionCleanup(nodesSub, edgesSub) == <<>>

\* The loadProjectData still awaiting a fetch when the page leaves.
RunningLoad(s) ==
  IF load[s] = "idle" THEN <<>>
  ELSE <<Left("load", projectId[s], load[s], NULL)>>

\* The node callbacks still awaiting fetchNodesByProject when the page leaves.
AwaitingFetches(s) ==
  [k \in DOMAIN nodeFetches[s] |->
     Left("nodeFetch", nodesSubscription[s], "fetch", nodeFetches[s][k])]

\* The :id of the route changes from one project to another: both effects
\* have [projectId] as dependencies, so the cleanup of the subscription
\* effect runs and both effects run again; the state of the component is
\* kept and what was awaited goes on.
Switch(s, p2) ==
  /\ projectId[s] \in Projects
  /\ p2 # projectId[s]
  /\ projectId' = [projectId EXCEPT ![s] = p2]
  /\ stale' = [stale EXCEPT ![s] =
       @ \o SubscriptionCleanup(nodesSubscription[s], edgesSubscription[s])
         \o RunningLoad(s) \o AwaitingFetches(s)]
  /\ nodesSubscription' = [nodesSubscription EXCEPT ![s] = p2]
  /\ edgesSubscription' = [edgesSubscription EXCEPT ![s] = p2]
  /\ nodeEvents' = [nodeEvents EXCEPT ![s] = <<>>]
  /\ edgeEvents' = [edgeEvents EXCEPT ![s] = <<>>]
  /\ nodeFetches' = [nodeFetches EXCEPT ![s] = <<>>]
  /\ isLoading' = [isLoading EXCEPT ![s] = TRUE]
  /\ error' = [error EXCEPT ![s] = NULL]
  /\ load' = [load EXCEPT ![s] = "fetchProject"]
  /\ UNCHANGED <<storeVars, home, modal, api, localVars, saves, edited, clock, used>>

\* The page is unmounted: the cleanup of the subscription effect runs, the
\* state of the component is discarded and what its awaited calls set later
\* is ignored.
Unmount(s) ==
  /\ projectId[s] \in Projects
  /\ projectId' = [projectId EXCEPT ![s] = Closed]
  /\ stale' = [stale EXCEPT ![s] =
       SelectSeq(@, LAMBDA op : op.kind = "channel")
         \o SubscriptionCleanup(nodesSubscription[s], edgesSubscription[s])]
  /\ nodesSubscription' = [nodesSubscription EXCEPT ![s] = NULL]
  /\ edgesSubscription' = [edgesSubscription EXCEPT ![s] = NULL]
  /\ nodeEvents' = [nodeEvents EXCEPT ![s] = <<>>]
  /\ edgeEvents' = [edgeEvents EXCEPT ![s] = <<>>]
  /\ nodeFetches' = [nodeFetches EXCEPT ![s] = <<>>]
  /\ nodes' = [nodes EXCEPT ![s] = <<>>]
  /\ edges' = [edges EXCEPT ![s] = <<>>]
  /\ hasUnsavedChanges' = [hasUnsavedChanges EXCEPT ![s] = FALSE]
  /\ isLoading' = [isLoading EXCEPT ![s] = TRUE]
  /\ error' = [error EXCEPT ![s] = NULL]
  /\ load' = [load EXCEPT ![s] = "idle"]
  /\ edited' = [edited EXCEPT ![s] = FALSE]
  /\ UNCHANGED <<storeVars, home, modal, api, saves, clock, used>>

\* formattedNodes of loadProjectData (setNodes) for project p.
LoadedNodes(p) ==
  LET got == SetToSeq(fetchNodesByProject(p))
  IN [i \in DOMAIN got |-> FormatNode(got[i].row, got[i].tool)]

\* formattedEdges of loadProjectData for project p.
LoadedEdges(p) ==
  LET got == SetToSeq(fetchEdgesByProject(p))
  IN [i \in DOMAIN got |-> FormatEdge(got[i])]

\* stale[s] without its entry k.
Dropped(s, k) ==
  SubSeq(stale[s], 1, k - 1) \o SubSeq(stale[s], k + 1, Len(stale[s]))

\* The next await of a loadProjectData started for a project the page has
\* left returns: the function holds the projectId it was called with and
\* sets the state of the component as if nothing had happened.
StaleLoadReturn(s, k) ==
  /\ k \in DOMAIN stale[s]
  /\ stale[s][k].kind = "load"
  /\ LET op == stale[s][k]
     IN CASE op.phase = "fetchProject" ->
               /\ IF op.pid \in projects
                  THEN /\ stale' = [stale EXCEPT ![s][k].phase = "fetchNodes"]
                       /\ UNCHANGED <<error, isLoading>>
                  ELSE /\ stale' = [stale EXCEPT ![s] = Dropped(s, k)]
                       /\ error' = [error EXCEPT ![s] = "fetchProjectById"]
                       /\ isLoading' = [isLoading EXCEPT ![s] = FALSE]
               /\ UNCHANGED localVars
          [] op.phase = "fetchNodes" ->
               /\ nodes' = [nodes EXCEPT ![s] = LoadedNodes(op.pid)]
               /\ stale' = [stale EXCEPT ![s][k].phase = "fetchEdges"]
               /\ UNCHANGED <<edges, hasUnsavedChanges, error, isLoading>>
          [] op.phase = "fetchEdges" ->
               /\ edges' = [edges EXCEPT ![s] = LoadedEdges(op.pid)]
               /\ hasUnsavedChanges' = [hasUnsavedChanges EXCEPT ![s] = FALSE]
               /\ isLoading' = [isLoading EXCEPT ![s] = FALSE]
               /\ stale' = [stale EXCEPT ![s] = Dropped(s, k)]
               /\ UNCHANGED <<nodes, error>>
  /\ UNCHANGED <<storeVars, home, modal, api, streamVars, projectId, load, saves, edited,
                 clock, subVars, nodeFetches, used>>

\* The fetchNodesByProject awaited by a node callback of a project the page
\* has left returns: setNodes upserts the node of that project.
StaleNodeFetchReturn(s, k, fails) ==
  /\ k \in DOMAIN stale[s]
  /\ stale[s][k].kind = "nodeFetch"
  /\ LET op == stale[s][k]
         updatedNode == FormatNode(op.rec, FullNodeTool(op.pid, op.rec.id, fails))
     IN nodes' = [nodes EXCEPT ![s] = UpsertLocal(@, updatedNode)]
  /\ stale' = [stale EXCEPT ![s] = Dropped(s, k)]
  /\ UNCHANGED <<storeVars, home, modal, api, streamVars, projectId, edges,
                 hasUnsavedChanges, isLoading, error, load, saves, edited, clock,
                 subVars, nodeFetches, used>>

\* Projects P and Q exist; Q holds a node and an edge next to its Start
\* node; no page is open.
InitView ==
  /\ projects = {"P", "Q"}
  /\ tools = {"t1"}
  /\ txns = [c \in Sessions |-> NoTxn]
  /\ stale = [s \in Sessions |-> <<>>]
  /\ home = NoHome
  /\ modal = NoModal
  /\ dbNodes = {StartRow("P"), StartRow("Q"),
                NodeRow("node_2", "Q", "Greeting", "Say hello", "default", NULL,
                        200, 100)}
  /\ dbEdges = {EdgeRow("e2", "Q", StartId("Q"), "node_2", "next", "")}
  /\ api = NoCall
  /\ projectId = [s \in Sessions |-> NULL]
  /\ nodes = [s \in Sessions |-> <<>>]
  /\ edges = [s \in Sessions |-> <<>>]
  /\ hasUnsavedChanges = [s \in Sessions |-> FALSE]
  /\ isLoading = [s \in Sessions |-> TRUE]
  /\ error = [s \in Sessions |-> NULL]
  /\ load = [s \in Sessions |-> "idle"]
  /\ saves = [s \in Sessions |-> <<>>]
  /\ edited = [s \in Sessions |-> FALSE]
  /\ clock = 0
  /\ nodesSubscription = [s \in Sessions |-> NULL]
  /\ edgesSubscription = [s \in Sessions |-> NULL]
  /\ nodeEvents = [s \in Sessions |-> <<>>]
  /\ edgeEvents = [s \in Sessions |-> <<>>]
  /\ nodeFetches = [s \in Sessions |-> <<>>]
  /\ used = [edits |-> [s \in Sessions |-> 0], remote |-> 0]

\* Session A opens project P, may go over to project Q and may close the
\* page, while it edits and saves and another client adds a node to P.
ViewNext ==
  \/ Mount("A", "P")
  \/ Switch("A", "Q")
  \/ Unmount("A")
  \/ LoadProject("A", FALSE)
  \/ LoadNodes("A", FALSE)
  \/ LoadEdges("A", FALSE)
  \/ handleAddNode("A", 1)
  \/ handleSave("A")
  \/ SaveFlowRpc("A", 1, FALSE)
  \/ SaveFlowReturn("A", 1)
  \/ UpdateProjectReturn("A", 1)
  \/ \E r \in {x \in RemoteNodeRows : x.node_type = "tool"} : RemoteCreateNode(r)
  \/ NodeEvent("A")
  \/ \E k \in DOMAIN nodeFetches["A"] : NodeFetchReturn("A", k, FALSE)
  \/ \E k \in DOMAIN stale["A"] : StaleLoadReturn("A", k)
  \/ \E k \in DOMAIN stale["A"] : StaleNodeFetchReturn("A", k, FALSE)

SpecView == InitView /\ [][ViewNext]_vars

-----------------------------------------------------------------------------
(* A page that only listens: project P is loaded and other clients write *)

\* The edge from the Start node to node_1.
AddedEdge ==
  EdgeRow("e1", "P", StartId("P"), "node_1", "Add Condition",
          "Describe the condition for this transition")

\* Project P holds the Start node, node_1 and the edge between them; page A
\* has mounted and finished loading it: the state LoadEdges leaves.
InitFeed ==
  /\ projects = {"P"}
  /\ tools = {"t1"}
  /\ txns = [c \in Sessions |-> NoTxn]
  /\ stale = [s \in Sessions |-> <<>>]
  /\ home = NoHome
  /\ modal = NoModal
  /\ dbNodes = {StartRow("P"), AddedRow}
  /\ dbEdges = {AddedEdge}
  /\ api = NoCall
  /\ projectId = [s \in Sessions |-> IF s = "A" THEN "P" ELSE NULL]
  /\ nodes = [s \in Sessions |->
       IF s = "A" THEN <<FormatNode(StartRow("P"), NULL), FormatNode(AddedRow, NULL)>>
       ELSE <<>>]
  /\ edges = [s \in Sessions |-> IF s = "A" THEN <<FormatEdge(AddedEdge)>> ELSE <<>>]
  /\ hasUnsavedChanges = [s \in Sessions |-> FALSE]
  /\ isLoading = [s \in Sessions |-> s # "A"]
  /\ error = [s \in Sessions |-> NULL]
  /\ load = [s \in Sessions |-> "idle"]
  /\ saves = [s \in Sessions |-> <<>>]
  /\ edited = [s \in Sessions |-> FALSE]
  /\ clock = 0
  /\ nodesSubscription = [s \in Sessions |-> IF s = "A" THEN "P" ELSE NULL]
  /\ edgesSubscription = [s \in Sessions |-> IF s = "A" THEN "P" ELSE NULL]
  /\ nodeEvents = [s \in Sessions |-> <<>>]
  /\ edgeEvents = [s \in Sessions |-> <<>>]
  /\ nodeFetches = [s \in Sessions |-> <<>>]
  /\ used = [edits |-> [s \in Sessions |-> 0], remote |-> 0]

\* The graphs the other clients save: the Start node alone, and the Start
\* node with an edge to a node that is stored nowhere.
FeedGraphs ==
  { [nodes |-> <<StartRow("P")>>, edges |-> <<>>],
    [nodes |-> <<StartRow("P")>>,
     edges |-> <<EdgeRow("e2", "P", StartId("P"), "node_2", "next", "")>>] }

FeedNext ==
  \/ \E r \in RemoteNodeRows : RemoteCreateNode(r)
  \/ \E id \in Ids(dbNodes), u \in RemoteUpdates : RemoteUpdateNode(id, u, FALSE)
  \/ \E id \in Ids(dbNodes) : RemoteDeleteNode(id)
  \/ \E g \in FeedGraphs : RemoteSaveFlow("P", g.nodes, g.edges)
  \/ NodeEvent("A")
  \/ \E k \in DOMAIN nodeFetches["A"], fails \in BOOLEAN :
       NodeFetchReturn("A", k, fails)
  \/ EdgeEvent("A")

SpecFeed == InitFeed /\ [][FeedNext]_vars

-----------------------------------------------------------------------------
(* Two saves of one page in flight at the same time *)

\* The edge onConnect makes from the Start node to node_1.
ConnectedEdge ==
  LocalEdge("xy-edge__" \o StartId("P") \o "a-node_1", StartId("P"), "node_1",
            "Add Condition", "Describe the condition for this transition")

\* What the page held when Save was clicked the first and the second time:
\* node_1 was added before the first click; between the clicks it was
\* connected to the Start node, removed, or edited in the node form.
OverlapEdits ==
  LET start == FormatNode(StartRow("P"), NULL)
      added == FormatNode(AddedRow, NULL)
      lookup == [added EXCEPT !.title = "Lookup", !.prompt = "Call the tool",
                              !.node_type = "tool", !.tool_id = "t1"]
  IN { [nodes1 |-> <<start, added>>, edges1 |-> <<>>,
        nodes2 |-> <<start, added>>, edges2 |-> <<ConnectedEdge>>],
       [nodes1 |-> <<start, added>>, edges1 |-> <<>>,
        nodes2 |-> <<start>>, edges2 |-> <<>>],
       [nodes1 |-> <<start, added>>, edges1 |-> <<>>,
        nodes2 |-> <<start, lookup>>, edges2 |-> <<>>] }

\* The record handleSave keeps of a save whose RPC has been sent.
SaveSent(ns, es, editedAfter) ==
  [pid |-> "P", nodes |-> [i \in DOMAIN ns |-> StoredNode(ns[i], "P")],
   edges |-> [i \in DOMAIN es |-> StoredEdge(es[i], "P")],
   phase |-> "rpc", calls |-> 1, rpcs |-> 1, result |-> "none",
   editedAfter |-> editedAfter]

\* Page A has loaded project P, added node_1 and clicked Save; the dirty
\* flag is still set while that save is awaited, so the Save button stays
\* enabled: the page was edited once more and Save was clicked again. Both
\* save_flow requests are on their way.
InitOverlap ==
  \E g \in OverlapEdits :
    /\ projects = {"P"}
    /\ tools = {"t1"}
    /\ txns = [c \in Sessions |-> NoTxn]
    /\ stale = [s \in Sessions |-> <<>>]
    /\ home = NoHome
    /\ modal = NoModal
    /\ dbNodes = {StartRow("P")}
    /\ dbEdges = {}
    /\ api = NoCall
    /\ projectId = [s \in Sessions |-> IF s = "A" THEN "P" ELSE NULL]
    /\ nodes = [s \in Sessions |-> IF s = "A" THEN g.nodes2 ELSE <<>>]
    /\ edges = [s \in Sessions |-> IF s = "A" THEN g.edges2 ELSE <<>>]
    /\ hasUnsavedChanges = [s \in Sessions |-> s = "A"]
    /\ isLoading = [s \in Sessions |-> s # "A"]
    /\ error = [s \in Sessions |-> NULL]
    /\ load = [s \in Sessions |-> "idle"]
    /\ saves = [s \in Sessions |->
         IF s = "A" THEN <<SaveSent(g.nodes1, g.edges1, TRUE),
                           SaveSent(g.nodes2, g.edges2, FALSE)>>
         ELSE <<>>]
    /\ edited = [s \in Sessions |-> s = "A"]
    /\ clock = 1
    /\ nodesSubscription = [s \in Sessions |-> IF s = "A" THEN "P" ELSE NULL]
    /\ edgesSubscription = [s \in Sessions |-> IF s = "A" THEN "P" ELSE NULL]
    /\ nodeEvents = [s \in Sessions |-> <<>>]
    /\ edgeEvents = [s \in Sessions |-> <<>>]
    /\ nodeFetches = [s \in Sessions |-> <<>>]
    /\ used = [edits |-> [s \in Sessions |-> IF s = "A" THEN 2 ELSE 0],
               remote |-> 0]

\* The two requests reach the store in either order and the two handleSave
\* calls resume in either order; the change events are not yet handled.
OverlapNext ==
  \/ \E i \in 1..2, lost \in BOOLEAN : SaveFlowRpc("A", i, lost)
  \/ \E i \in 1..2 : SaveFlowReturn("A", i)
  \/ \E i \in 1..2 : UpdateProjectReturn("A", i)

SpecOverlap == InitOverlap /\ [][OverlapNext]_vars

-----------------------------------------------------------------------------
(* The home page (HomePage): the project list, its load and its feed *)

\* A row of projects as the page holds it (name, description and the
\* timestamps are not looked at by the page logic).
ProjectRecord(p) == [id |-> p]

\* fetchProjects: select * from projects order by created_at desc. The
\* order of the rows plays no part in what the page does with them.
fetchProjects == [i \in 1..Cardinality(projects) |-> ProjectRecord(SetToSeq(projects)[i])]

\* The home page mounts: loadProjects starts (setIsLoading(true)) and the
\* subscription to the projects table is opened.
HomeMount ==
  /\ home.load = "idle"
  /\ ~home.subscription
  /\ home' = [home EXCEPT !.isLoading = TRUE, !.load = "fetchProjects",
                          !.subscription = TRUE]
  /\ UNCHANGED <<storeVars, stale, modal, api, streamVars, sessionVars>>

\* await fetchProjects() returns: setProjects(data || []), or setError;
\* finally setIsLoading(false).
HomeLoadReturn(fails) ==
  /\ home.load = "fetchProjects"
  /\ home' = IF fails
             THEN [home EXCEPT !.error = "fetchProjects", !.isLoading = FALSE,
                               !.load = "done"]
             ELSE [home EXCEPT !.projects = fetchProjects, !.isLoading = FALSE,
                               !.load = "done"]
  /\ UNCHANGED <<storeVars, stale, modal, api, streamVars, sessionVars>>

\* setProjects of the subscription callback: an INSERT is put in front, an
\* UPDATE replaces the project with that id, a DELETE filters it out.
ProjectListAfter(prev, ev) ==
  CASE ev.eventType = "INSERT" -> <<ev.rec>> \o prev
    [] ev.eventType = "UPDATE" ->
         [i \in DOMAIN prev |-> IF prev[i].id = ev.rec.id THEN ev.rec ELSE prev[i]]
    [] OTHER -> SelectSeq(prev, LAMBDA x : x.id # ev.rec.id)

\* The subscription callback is invoked with the next project event.
ProjectEvent ==
  /\ home.events # <<>>
  /\ home' = [home EXCEPT !.events = Tail(@),
                          !.projects = ProjectListAfter(@, Head(home.events))]
  /\ UNCHANGED <<storeVars, stale, modal, api, streamVars, sessionVars>>

\* The project events a commit emits reach the home page if it listens.
Delivered(evs) ==
  IF home.subscription THEN [home EXCEPT !.events = @ \o evs] ELSE home

\* A createProject commits, of handleCreateProject or of another client:
\* the page does not add the project itself, the feed does.
ProjectCreated(p) ==
  /\ used.remote < MaxRemoteOps
  /\ p \notin projects
  /\ LET res == create_start_node_for_project(p)
     IN /\ res.ok
        /\ Commit(res)
  /\ projects' = projects \cup {p}
  /\ home' = Delivered(<<Event("INSERT", ProjectRecord(p))>>)
  /\ used' = [used EXCEPT !.remote = @ + 1]
  /\ UNCHANGED <<tools, txns, stale, modal, api, projectId, localVars, isLoading, error,
                 load, saves, edited, clock, subVars, nodeFetches>>

\* An updateProject commits (handleSave touches updated_at).
ProjectUpdated(p) ==
  /\ used.remote < MaxRemoteOps
  /\ p \in projects
  /\ home.subscription
  /\ home' = Delivered(<<Event("UPDATE", ProjectRecord(p))>>)
  /\ used' = [used EXCEPT !.remote = @ + 1]
  /\ UNCHANGED <<storeVars, stale, modal, api, streamVars, projectId, localVars,
                 isLoading, error, load, saves, edited, clock, subVars,
                 nodeFetches>>

\* At-least-once delivery: the project event at the head of the feed is
\* delivered a second time.
RedeliverProjectEvent ==
  /\ used.remote < MaxRemoteOps
  /\ home.events # <<>>
  /\ home' = [home EXCEPT !.events = <<Head(@)>> \o @]
  /\ used' = [used EXCEPT !.remote = @ + 1]
  /\ UNCHANGED <<storeVars, stale, modal, api, streamVars, projectId, localVars,
                 isLoading, error, load, saves, edited, clock, subVars,
                 nodeFetches>>

HomeNext ==
  \/ HomeMount
  \/ \E fails \in BOOLEAN : HomeLoadReturn(fails)
  \/ ProjectEvent
  \/ \E p \in Projects : ProjectCreated(p)
  \/ \E p \in Projects : ProjectUpdated(p)
  \/ RedeliverProjectEvent

SpecHome == Init /\ [][HomeNext]_vars

-----------------------------------------------------------------------------
(* The tool modal (ToolEditModal): its form, handleSubmit and the store call *)

MaxText == 2        \* longest text typed into the headers or the body field
MaxSubmits == 2     \* handleSubmit invocations followed

\* The characters the two JSON fields are made of: white space and braces.
Chars == {" ", "{", "}"}

RECURSIVE trimStart(_)
trimStart(t) == IF t # <<>> /\ Head(t) = " " THEN trimStart(Tail(t)) ELSE t

RECURSIVE trimEnd(_)
trimEnd(t) ==
  IF t # <<>> /\ t[Len(t)] = " " THEN trimEnd(SubSeq(t, 1, Len(t) - 1)) ELSE t

\* String.prototype.trim
trim(t) == trimEnd(trimStart(t))

\* JSON.parse: white space around the value is skipped; over Chars the only
\* value is the object without members, with white space allowed between
\* its braces. Every other text, the empty and the blank one included, is a
\* SyntaxError.
JSON_parse(t) ==
  LET u == trim(t)
  IN IF /\ Len(u) >= 2
        /\ Head(u) = "{"
        /\ u[Len(u)] = "}"
        /\ \A i \in 2..(Len(u) - 1) : u[i] = " "
     THEN [ok |-> TRUE, value |-> "object"]
     ELSE [ok |-> FALSE, value |-> NULL]

\* JSON.stringify(value, null, 2) of the object without members.
JSON_stringify(v) == <<"{", "}">>

\* The effect on [tool, isOpen]: the form is filled from the tool, or reset
\* for a new tool; a null headers or body column gives the empty text.
FormOf(tool) ==
  [headers |-> IF tool.headers # NULL THEN JSON_stringify(tool.headers) ELSE <<>>,
   body    |-> IF tool.body # NULL THEN JSON_stringify(tool.body) ELSE <<>>]

\* The tool objects ToolsPage passes: null (New Tool, id NULL here) or a row
\* of its list, which may have been deleted from the store since.
ToolProps ==
  {NoModal.tool} \cup
  {[id |-> t, headers |-> h, body |-> b] :
     t \in ToolIds, h \in {NULL, "object"}, b \in {NULL}}

\* handleEditTool or the New Tool button: setSelectedTool, then
\* setIsCreateModalOpen(true); the effect fills the form and clears the error.
OpenModal(tool) ==
  /\ ~modal.isOpen
  /\ modal' = [modal EXCEPT !.isOpen = TRUE, !.tool = tool,
                            !.formData = FormOf(tool), !.error = NULL]
  /\ UNCHANGED <<storeVars, stale, home, api, streamVars, sessionVars>>

\* onClose of ToolsPage: setIsCreateModalOpen(false). The effect runs when
\* isOpen changes and not otherwise.
onClose(m) ==
  IF m.isOpen
  THEN [m EXCEPT !.isOpen = FALSE, !.formData = FormOf(m.tool), !.error = NULL]
  ELSE m

\* Cancel or the close button, which are not disabled during a submit.
CloseModal ==
  /\ modal.isOpen
  /\ modal' = onClose(modal)
  /\ UNCHANGED <<storeVars, stale, home, api, streamVars, sessionVars>>

\* onChange of a textarea: one more character, or the last one erased.
TypeChar(field, c) ==
  /\ modal.isOpen
  /\ Len(modal.formData[field]) < MaxText
  /\ modal' = [modal EXCEPT !.formData[field] = Append(@, c)]
  /\ UNCHANGED <<storeVars, stale, home, api, streamVars, sessionVars>>

EraseChar(field) ==
  /\ modal.isOpen
  /\ modal.formData[field] # <<>>
  /\ modal' = [modal EXCEPT !.formData[field] = SubSeq(@, 1, Len(@) - 1)]
  /\ UNCHANGED <<storeVars, stale, home, api, streamVars, sessionVars>>

\* A field parsed by a mistaken handleSubmit that sends null for a text it
\* cannot parse.
ParsedFieldOrNull(text) ==
  IF trim(text) # <<>> /\ JSON_parse(text).ok
  THEN JSON_parse(text)
  ELSE [ok |-> TRUE, value |-> NULL]

\* if (formData.headers.trim()) { try { headersObj = JSON.parse(...) }
\* catch { throw new Error('Invalid JSON in headers') } }, and the same
\* for the body: null for a blank field, the parsed value, or the throw.
ParsedField(text) ==
  IF trim(text) # <<>> THEN JSON_parse(text) ELSE [ok |-> TRUE, value |-> NULL]

\* handleSubmit up to its await. The submit button is disabled while
\* isSubmitting. A field that does not parse throws before any call is
\* made: catch sets the error and finally clears isSubmitting, all within
\* the event handler. Otherwise updateTool(tool.id, toolData) or
\* createTool(toolData) is sent and awaited.
handleSubmit ==
  /\ modal.isOpen
  /\ ~modal.isSubmitting
  /\ modal.submits < MaxSubmits
  /\ LET h == ParsedField(modal.formData.headers)
         b == ParsedField(modal.formData.body)
     IN modal' =
          IF ~h.ok
          THEN [modal EXCEPT !.error = "Invalid JSON in headers",
                             !.isSubmitting = FALSE, !.submits = @ + 1]
          ELSE IF ~b.ok
          THEN [modal EXCEPT !.error = "Invalid JSON in body",
                             !.isSubmitting = FALSE, !.submits = @ + 1]
          ELSE [modal EXCEPT
                  !.error = NULL, !.isSubmitting = TRUE, !.submits = @ + 1,
                  !.call = [op |-> IF modal.tool.id # NULL THEN "updateTool"
                                   ELSE "createTool",
                            id |-> modal.tool.id, headers |-> h.value,
                            body |-> b.value, result |-> "sent"]]
  /\ UNCHANGED <<storeVars, stale, home, api, streamVars, sessionVars>>

\* The ids the store generates for new tools (uuid), as many as submits.
FreshToolIds == {"t2", "t3", "t4"}

\* createTool / updateTool at the store: insert(...).select().single(), or
\* update(...).eq('id', toolId).select().single(), which is an error when no
\* row has that id; a failure comes back as handleSupabaseError's result.
ToolRpc(fails) ==
  /\ modal.call.result = "sent"
  /\ LET c  == modal.call
         ok == ~fails /\ (c.op = "updateTool" => c.id \in tools)
     IN /\ tools' = IF ok /\ c.op = "createTool"
                    THEN tools \cup {CHOOSE t \in FreshToolIds \ tools : TRUE}
                    ELSE tools
        /\ modal' = [modal EXCEPT !.call.result =
                       IF ok THEN NULL ELSE handleSupabaseError("store").error]
  /\ UNCHANGED <<projects, txns, dbNodes, dbEdges, stale, home, api, streamVars,
                 sessionVars>>

\* handleSubmit after its await: result.error throws into catch (setError);
\* otherwise onSave, which ToolsPage does not pass, and onClose(); finally
\* setIsSubmitting(false).
ToolReturn ==
  /\ modal.call.op # "none"
  /\ modal.call.result # "sent"
  /\ modal' = IF modal.call.result # NULL
              THEN [modal EXCEPT !.error = modal.call.result,
                                 !.isSubmitting = FALSE, !.call = NoToolCall]
              ELSE onClose([modal EXCEPT !.isSubmitting = FALSE,
                                         !.call = NoToolCall])
  /\ UNCHANGED <<storeVars, stale, home, api, streamVars, sessionVars>>

ModalNext ==
  \/ \E tool \in ToolProps : OpenModal(tool)
  \/ CloseModal
  \/ \E field \in {"headers", "body"}, c \in Chars : TypeChar(field, c)
  \/ \E field \in {"headers", "body"} : EraseChar(field)
  \/ handleSubmit
  \/ \E fails \in BOOLEAN : ToolRpc(fails)
  \/ ToolReturn

SpecModal == Init /\ [][ModalNext]_vars

-----------------------------------------------------------------------------
(* Properties of the durable store (SpecStore) *)

StartNodesOf(p) == {r \in dbNodes : r.project_id = p /\ r.node_type = "start"}

\* C1: in every reachable state of the store each existing project has
\* exactly one node with node_type = 'start', and the id of that node is
\* 'start_' followed by the project id.
OneStartNodePerProject ==
  \A p \in projects :
    /\ Cardinality(StartNodesOf(p)) = 1
    /\ \A r \in StartNodesOf(p) : r.id = StartId(p)

\* A saveFlow call is made in this step and reaches the save_flow RPC.
SaveFlowCalled == api.op = "none" /\ api'.op = "saveFlow" /\ api'.rpc

\* C2: a saveFlow call whose node set passes the start-node check never
\* deletes the row 'start_<projectId>' and never changes its node_type: a
\* row that is the Start node before the call is the Start node after it,
\* and after a successful call it has the title and prompt of the payload.
SaveFlowKeepsStartNode ==
  [][SaveFlowCalled =>
       LET sid == StartId(api'.pid)
       IN (sid \in Ids(dbNodes) /\ RowWithId(dbNodes, sid).node_type = "start")
          => /\ sid \in Ids(dbNodes')
             /\ RowWithId(dbNodes', sid).node_type = "start"
             /\ \A i \in DOMAIN api'.nodes :
                  (api'.ok /\ api'.nodes[i].id = sid)
                  => /\ RowWithId(dbNodes', sid).title = api'.nodes[i].title
                     /\ RowWithId(dbNodes', sid).prompt = api'.nodes[i].prompt]_vars

\* C3: a saveFlow call that fails, at whichever statement of save_flow,
\* leaves what fetchNodesByProject and fetchEdgesByProject return for every
\* project as it was before the call, and emits no change event.
SaveFlowAtomic ==
  [][(api.op = "none" /\ api'.op = "saveFlow" /\ ~api'.ok) =>
       /\ \A p \in Projects :
            /\ fetchNodesByProject(p)' = fetchNodesByProject(p)
            /\ fetchEdgesByProject(p)' = fetchEdgesByProject(p)
       /\ nodeEvents' = nodeEvents
       /\ edgeEvents' = edgeEvents]_vars

\* C3 happens: a saveFlow call has failed in the store after the delete
\* phase had rows of the project to delete (a node upsert or an edge insert
\* raised).
SaveFlowFailedAfterDelete ==
  /\ api.op = "saveFlow"
  /\ api.rpc
  /\ ~api.ok
  /\ DeletedNodes(api.pid) # {}
  /\ save_flow_body(api.pid, api.nodes, api.edges).nodes # dbNodes

\* C4: after a successful saveFlow call and before any other write,
\* fetchNodesByProject returns exactly the supplied node rows and
\* fetchEdgesByProject exactly the supplied edge rows.
FetchReturnsSuppliedGraph ==
  (api.op = "saveFlow" /\ api.ok) =>
    /\ {n.row : n \in fetchNodesByProject(api.pid)} = SeqToSet(api.nodes)
    /\ fetchEdgesByProject(api.pid) = SeqToSet(api.edges)

\* C6: a saveFlow call whose node set has two or more nodes with
\* node_type = 'start' is rejected.
SaveRejectsSecondStartNode ==
  (/\ api.op = "saveFlow"
   /\ Cardinality({i \in DOMAIN api.nodes : api.nodes[i].node_type = "start"}) >= 2)
  => ~api.ok

-----------------------------------------------------------------------------
(* Properties of the Flow page (SpecSession) *)

\* The rows handleSave would send for session s in the current state.
FormattedNodes(s) ==
  [i \in DOMAIN nodes[s] |-> StoredNode(nodes[s][i], projectId[s])]

\* Save i of session s ends in failure in this step.
SaveFails(s, i) ==
  /\ i \in DOMAIN saves'[s]
  /\ saves'[s][i].phase = "failed"
  /\ (i \in DOMAIN saves[s] => saves[s][i].phase # "failed")

\* C5: a save whose node set has no Start node ends in failure in the step
\* of the click: saveFlow answers an error, no save_flow RPC is sent then or
\* later, the stored graph is unchanged and the dirty flag stays set.
SaveWithoutStartNodeFailsLocally ==
  [][\A s \in Sessions :
       /\ (Len(saves'[s]) > Len(saves[s]) /\ ~has_start_node(FormattedNodes(s)))
          => /\ SaveFails(s, Len(saves'[s]))
             /\ saves'[s][Len(saves'[s])].rpcs = 0
             /\ dbNodes' = dbNodes
             /\ dbEdges' = dbEdges
             /\ hasUnsavedChanges'[s]
       /\ \A i \in DOMAIN saves[s] :
            saves[s][i].result = "rejected" => saves'[s][i] = saves[s][i]]_vars

\* C5 happens: a save was rejected by saveFlow before the RPC.
SaveRejectedLocally ==
  \E s \in Sessions : \E i \in DOMAIN saves[s] :
    /\ saves[s][i].result = "rejected"
    /\ saves[s][i].phase = "failed"
    /\ hasUnsavedChanges[s]

NoSaveInFlight(s) == \A i \in DOMAIN saves[s] : ~InFlight(saves[s][i])

\* C7: whenever no save is in flight and no load is running, a session in
\* which a local edit was applied after the snapshot of the most recent
\* successful save or load has hasUnsavedChanges = true.
DirtyMarksDivergence ==
  \A s \in Sessions :
    (NoSaveInFlight(s) /\ load[s] = "idle" /\ edited[s]) => hasUnsavedChanges[s]

\* C8: every local mutating operation leaves the dirty flag set, and the
\* dirty flag goes from set to clear only when a load completes without
\* error or when a save completes whose save_flow call succeeded.
DirtyClearedOnlyByLoadOrSave ==
  [][\A s \in Sessions :
       /\ used'.edits[s] > used.edits[s] => hasUnsavedChanges'[s]
       /\ (hasUnsavedChanges[s] /\ ~hasUnsavedChanges'[s])
          => \/ /\ load[s] = "fetchEdges"
                /\ load'[s] = "idle"
                /\ error'[s] = NULL
             \/ \E i \in DOMAIN saves[s] :
                  /\ saves[s][i].phase = "updateProject"
                  /\ saves'[s][i].phase = "succeeded"
                  /\ saves[s][i].result = "ok"]_vars

\* C8 happens: after a local edit set the flag, a save whose save_flow call
\* succeeded has completed and cleared it.
DirtyClearedBySave ==
  \E s \in Sessions : \E i \in DOMAIN saves[s] :
    /\ used.edits[s] > 0
    /\ saves[s][i].phase = "succeeded"
    /\ ~hasUnsavedChanges[s]

UserVisible(s) ==
  <<nodes[s], edges[s], hasUnsavedChanges[s], isLoading[s], error[s]>>

\* C10: the step in which a save fails changes what the page shows: the
\* failure is exposed in user-visible state.
SaveFailureSurfaced ==
  [][\A s \in Sessions : \A i \in DOMAIN saves'[s] :
       SaveFails(s, i) => UserVisible(s)' # UserVisible(s)]_vars

-----------------------------------------------------------------------------
(* Properties of reconciliation (SpecReconcile) *)

\* A subscription callback of session s runs in this step: an event is
\* taken off a stream, or a node handler resumes after its fetch.
NodeEventTaken(s) == Len(nodeEvents'[s]) < Len(nodeEvents[s])
NodeHandlerResumed(s) == Len(nodeFetches'[s]) < Len(nodeFetches[s])
EdgeEventTaken(s) == Len(edgeEvents'[s]) < Len(edgeEvents[s])

\* C11: a step of a subscription callback (node or edge; INSERT, UPDATE or
\* DELETE) leaves hasUnsavedChanges as it was.
ReconciliationKeepsDirtyFlag ==
  [][\A s \in Sessions :
       (NodeEventTaken(s) \/ NodeHandlerResumed(s) \/ EdgeEventTaken(s))
       => hasUnsavedChanges'[s] = hasUnsavedChanges[s]]_vars

\* C11 happens: the flag is set, the edge stream has been emptied by the
\* callback after another client's write, and a node handler has taken an
\* event and awaits its fetch.
EventsAppliedWhileDirty ==
  \E s \in Sessions :
    /\ hasUnsavedChanges[s]
    /\ nodeFetches[s] # <<>>
    /\ edgeEvents[s] = <<>>
    /\ \E e \in SeqToSet(edges[s]) : e.id = "e1"
    /\ load[s] = "idle"

\* The sequence q without its k-th element.
Without(q, k) == SubSeq(q, 1, k - 1) \o SubSeq(q, k + 1, Len(q))

\* The local node n has the persisted fields of the node row r.
CarriesNodeFields(n, r) ==
  /\ n.id = r.id
  /\ n.x = r.position_x
  /\ n.y = r.position_y
  /\ n.title = r.title
  /\ n.prompt = r.prompt
  /\ n.node_type = r.node_type
  /\ n.tool_id = r.tool_id

\* The local edge e has the fields of the edge row r.
CarriesEdgeFields(e, r) ==
  /\ e.id = r.id
  /\ e.source = r.source_id
  /\ e.target = r.target_id
  /\ e.label = r.label
  /\ e.prompt = r.prompt

\* From before to after the entity id was overwritten in place if it was
\* there and appended if not; every other entity is as it was, and ids that
\* were unique are unique.
UpsertedInto(before, after, id) ==
  /\ IF \E i \in DOMAIN before : before[i].id = id
     THEN /\ Len(after) = Len(before)
          /\ \A i \in DOMAIN before :
               IF before[i].id = id THEN after[i].id = id
               ELSE after[i] = before[i]
     ELSE /\ Len(after) = Len(before) + 1
          /\ SubSeq(after, 1, Len(before)) = before
          /\ after[Len(after)].id = id
  /\ ~DuplicateIds(before) => ~DuplicateIds(after)

\* C12: when a callback applies an INSERT or UPDATE event for id X, the
\* local entity X afterwards has exactly the fields of the event's row,
\* overwriting a local entity X in place (whatever local edits it had) or
\* appended if there was none; every other local entity is unchanged and
\* unique ids stay unique.
UpsertEventOverwritesEntity ==
  [][\A s \in Sessions :
       /\ NodeHandlerResumed(s) =>
            \E k \in DOMAIN nodeFetches[s] :
              /\ nodeFetches'[s] = Without(nodeFetches[s], k)
              /\ UpsertedInto(nodes[s], nodes'[s], nodeFetches[s][k].id)
              /\ \A i \in DOMAIN nodes'[s] :
                   nodes'[s][i].id = nodeFetches[s][k].id
                   => CarriesNodeFields(nodes'[s][i], nodeFetches[s][k])
       /\ (EdgeEventTaken(s) /\ Head(edgeEvents[s]).eventType # "DELETE") =>
            LET r == Head(edgeEvents[s]).rec
            IN /\ UpsertedInto(edges[s], edges'[s], r.id)
               /\ \A i \in DOMAIN edges'[s] :
                    edges'[s][i].id = r.id => CarriesEdgeFields(edges'[s][i], r)]_vars

\* C12 happens: the only local edit of the session changed the prompt of
\* the Start node, and the UPDATE event of another client's rename of that
\* node has since replaced the edited prompt by the stored one.
LocalEditOverwrittenByEvent ==
  \E s \in Sessions :
    /\ edited[s]
    /\ used.edits[s] = 1
    /\ used.remote = 1
    /\ edges[s] = <<>>
    /\ nodeEvents[s] = <<>>
    /\ nodeFetches[s] = <<>>
    /\ Len(nodes[s]) = 1
    /\ nodes[s][1].id = StartId("P")
    /\ nodes[s][1].title = "Begin"
    /\ nodes[s][1].prompt = "This is the starting point of your flow"

\* after is before without the entity id: unchanged when id was absent,
\* and with every other entity kept once, in order.
RemovedFrom(before, after, id) ==
  /\ \A i \in DOMAIN after : after[i].id # id
  /\ SeqToSet(after) = {x \in SeqToSet(before) : x.id # id}
  /\ Len(after) = Cardinality({i \in DOMAIN before : before[i].id # id})
  /\ \A i, j \in DOMAIN after :
       i < j => \E a, b \in DOMAIN before :
                  a < b /\ before[a] = after[i] /\ before[b] = after[j]
  /\ (\A i \in DOMAIN before : before[i].id # id) => after = before

\* C13: when a callback applies a DELETE event for id X, the local
\* collection afterwards is the one before without the entity X: unchanged
\* when X was absent, and with every other entity as it was.
DeleteEventRemovesEntity ==
  [][\A s \in Sessions :
       /\ (NodeEventTaken(s) /\ Head(nodeEvents[s]).eventType = "DELETE") =>
            RemovedFrom(nodes[s], nodes'[s], Head(nodeEvents[s]).rec.id)
       /\ (EdgeEventTaken(s) /\ Head(edgeEvents[s]).eventType = "DELETE") =>
            RemovedFrom(edges[s], edges'[s], Head(edgeEvents[s]).rec.id)]_vars

\* C13 happens: the only local edit of the session connected the Start node
\* to node_1, and a DELETE event has since removed node_1 from the local
\* nodes.
NodeRemovedByDeleteEvent ==
  \E s \in Sessions :
    /\ used.edits[s] = 1
    /\ \E e \in SeqToSet(edges[s]) : e.target = "node_1"
    /\ \A i \in DOMAIN nodes[s] : nodes[s][i].id # "node_1"
    /\ nodeEvents[s] = <<>>

\* The local nodes nds are as an application of the INSERT / UPDATE event
\* with row r leaves them: applying it (with some outcome t of the
\* supplemental fetch) gives nds again.
NodeEventApplied(nds, r) ==
  \E t \in tools \cup {NULL} : UpsertLocal(nds, FormatNode(r, t)) = nds

\* C14: applying an INSERT / UPDATE event to local state in which that event
\* is already applied (a second delivery, or a second handler that awaited
\* its fetch while the first one finished) leaves the local nodes and edges
\* as the first application left them.
EventReappliedIsNoOp ==
  [][\A s \in Sessions :
       /\ NodeHandlerResumed(s) =>
            \A k \in DOMAIN nodeFetches[s] :
              (/\ nodeFetches'[s] = Without(nodeFetches[s], k)
               /\ NodeEventApplied(nodes[s], nodeFetches[s][k]))
              => nodes'[s] = nodes[s]
       /\ (/\ EdgeEventTaken(s)
           /\ Head(edgeEvents[s]).eventType # "DELETE"
           /\ UpsertLocal(edges[s], FormatEdge(Head(edgeEvents[s]).rec)) = edges[s])
          => edges'[s] = edges[s]]_vars

-----------------------------------------------------------------------------
(* Start-node protection in the adapter (SpecStore) *)

\* C20: a deleteNode call on a node that is a Start node in the store fails
\* without the DELETE being sent to the store, and the node is still stored
\* afterwards, whether isStartNode's own select succeeds or fails.
DeleteStartNodeNeverReachesStore ==
  [][(/\ api.op = "none"
      /\ api'.op = "deleteNode"
      /\ api'.id \in Ids(dbNodes)
      /\ RowWithId(dbNodes, api'.id).node_type = "start")
     => (/\ ~api'.ok
         /\ ~api'.rpc
         /\ api'.id \in Ids(dbNodes'))]_vars

-----------------------------------------------------------------------------
(* Start-node protection on the canvas (SpecReconcile) *)

\* The step is a local editing operation of session s.
LocalEditStep(s) == used'.edits[s] # used.edits[s]

\* C19: after every step each local node is marked deletable: false exactly
\* when its node_type is 'start', and a local editing operation (a removal
\* included) leaves every Start node in the node collection as a Start node.
StartNodeNotDeletableLocally ==
  [][\A s \in Sessions :
       /\ \A n \in SeqToSet(nodes'[s]) : (~n.deletable) <=> (n.node_type = "start")
       /\ LocalEditStep(s) =>
            \A n \in SeqToSet(nodes[s]) :
              n.node_type = "start" =>
                \E m \in SeqToSet(nodes'[s]) : m.id = n.id /\ m.node_type = "start"]_vars

\* The positions of the Start nodes in the local nodes of session s.
LocalStartNodes(s) ==
  {i \in DOMAIN nodes[s] : nodes[s][i].node_type = "start"}

\* C18: once a load has succeeded, and after every later local edit and
\* reconciliation event, the local nodes hold exactly one node with
\* node_type 'start', and its id is 'start_<projectId>'.
ExactlyOneLocalStartNode ==
  \A s \in Sessions :
    UiReady(s) =>
      /\ Cardinality(LocalStartNodes(s)) = 1
      /\ \A i \in LocalStartNodes(s) : nodes[s][i].id = StartId(projectId[s])

-----------------------------------------------------------------------------
(* Properties of two sessions on one project (SpecShare, FairShare) *)

\* The edge rows session A can save.
SharedEdgeRows ==
  {EdgeRow("xy-edge__" \o StartId("P") \o "a-" \o StartId("P"), "P",
           StartId("P"), StartId("P"), x.label, x.prompt) :
     x \in {[label |-> "Add Condition",
             prompt |-> "Describe the condition for this transition"],
            [label |-> "yes", prompt |-> "The caller agrees"]}}

\* The INSERT event of row r, committed by a save of A, is delivered to B.
DeliveredToB(r) ==
  /\ edgesSubscription["B"] = "P"
  /\ r \in dbEdges
  /\ Event("INSERT", r) \in SeqToSet(edgeEvents["B"])

\* B's local edges hold the edge of row r with its persisted fields.
PresentAtB(r) ==
  \E e \in SeqToSet(edges["B"]) : CarriesEdgeFields(e, r)

\* C16: an edge that a save of session A committed, and whose INSERT event
\* is delivered to session B's active edge subscription, is eventually in
\* B's local edges with the persisted source, target, label and prompt,
\* while B neither saves nor reloads.
EdgePropagatesToOtherSession ==
  \A r \in SharedEdgeRows : DeliveredToB(r) ~> PresentAtB(r)

\* B holds the edge A saved although B has not edited, saved or loaded since
\* both pages were opened on the Start-only graph.
EdgeArrivedAtB ==
  /\ \E r \in SharedEdgeRows : r \in dbEdges /\ PresentAtB(r)
  /\ Len(saves["A"]) >= 1 /\ saves["A"][1].result = "ok"
  /\ saves["B"] = <<>>
  /\ used.edits["B"] = 0
  /\ edgeEvents["B"] = <<>>

-----------------------------------------------------------------------------
(* Properties of a session's own echo (SpecEcho) *)

\* Every delivered event of session s has been applied.
EchoProcessed(s) ==
  nodeEvents[s] = <<>> /\ edgeEvents[s] = <<>> /\ nodeFetches[s] = <<>>

\* The latest save of session s has succeeded in the store and the user has
\* not edited the graph since its snapshot was taken.
SavedAndUntouched(s) ==
  /\ saves[s] # <<>>
  /\ LET save == saves[s][Len(saves[s])]
     IN /\ save.result = "ok"
        /\ \/ InFlight(save) /\ ~save.editedAfter
           \/ save.phase = "succeeded" /\ ~edited[s]

\* The ids and persisted fields of the local graph of session s are those of
\* the stored graph of its project, which is the snapshot its save wrote.
LocalEqualsSaved(s) ==
  /\ {StoredNode(nodes[s][i], projectId[s]) : i \in DOMAIN nodes[s]}
       = {r \in dbNodes : r.project_id = projectId[s]}
  /\ {StoredEdge(edges[s][i], projectId[s]) : i \in DOMAIN edges[s]}
       = {r \in dbEdges : r.project_id = projectId[s]}

\* C17: once a save of the session has succeeded and every event delivered
\* to the session has been applied, with no local edit since the snapshot
\* and no other writer, the local nodes and edges equal the saved snapshot,
\* whether handleSave or the callbacks finish first.
OwnSaveEchoHarmless ==
  \A s \in Sessions :
    (SavedAndUntouched(s) /\ EchoProcessed(s)) => LocalEqualsSaved(s)

-----------------------------------------------------------------------------
(* Properties of concurrent saves (SpecTxn) *)

\* Both clients' saveFlow calls have returned success.
BothSavesSucceeded ==
  \A c \in Sessions : txns[c].pc = "done" /\ txns[c].result = "ok"

\* The client whose transaction committed last.
LastCommitted ==
  CHOOSE c \in Sessions : \A o \in Sessions : txns[o].order <= txns[c].order

\* C15: once the saveFlow calls of both clients for project P have
\* succeeded, the stored nodes and edges of P are exactly the payload of the
\* call that committed last; nothing of the other payload alone is left.
LastCommitWins ==
  BothSavesSucceeded =>
    /\ {r \in dbNodes : r.project_id = "P"} = SeqToSet(txns[LastCommitted].nodes)
    /\ {e \in dbEdges : e.project_id = "P"} = SeqToSet(txns[LastCommitted].edges)

\* C21: an updateNode call that succeeds on a Start node leaves its
\* node_type 'start' and sets the other columns of the patch (the title),
\* whether isStartNode's own select succeeds or fails.
UpdateNodeKeepsStartKind ==
  [][(/\ api.op = "none"
      /\ api'.op = "updateNode"
      /\ api'.ok
      /\ api'.id \in Ids(dbNodes)
      /\ RowWithId(dbNodes, api'.id).node_type = "start")
     => \E u \in ApiUpdates :
          /\ api'.id \in Ids(dbNodes')
          /\ RowWithId(dbNodes', api'.id) =
               Patched(RowWithId(dbNodes, api'.id),
                       [f \in DOMAIN u \ {"node_type"} |-> u[f]])]_vars

\* C22: right after createProject has succeeded for project p,
\* fetchNodesByProject(p) returns exactly one node, the Start node 'start_p'
\* of node_type 'start' at (50, 50), and fetchEdgesByProject(p) returns none.
CreateProjectCreatesStartNode ==
  (api.op = "createProject" /\ api.ok) =>
    /\ {n.row : n \in fetchNodesByProject(api.pid)} =
         {NodeRow(StartId(api.pid), api.pid, "Start",
                  "This is the starting point of your flow", "start", NULL, 50, 50)}
    /\ fetchEdgesByProject(api.pid) = {}

\* A second project has just been created while the first one already holds
\* more than its Start node.
ProjectCreatedBesideAnother ==
  /\ api.op = "createProject" /\ api.ok
  /\ projects = Projects
  /\ Cardinality(dbNodes) >= 3

\* C23: a deleteProject call on an existing project succeeds, and afterwards
\* the project, all of its nodes (its Start node included) and all of its
\* edges are gone from the store.
DeleteProjectCascades ==
  [][(/\ api.op = "none"
      /\ api'.op = "deleteProject"
      /\ api'.pid \in projects)
     => (/\ api'.ok
         /\ api'.pid \notin projects'
         /\ \A r \in dbNodes' : r.project_id # api'.pid
         /\ \A e \in dbEdges' : e.project_id # api'.pid)]_vars

-----------------------------------------------------------------------------
(* Properties of leaving a project (SpecView) *)

\* C24: when the page leaves a project, by unmounting or because the route
\* changes to another project, neither the node nor the edge subscription
\* opened for that project is active afterwards; and a session never holds
\* more than one node subscription and one edge subscription: those it
\* holds are for the project it shows and no channel of an earlier project
\* is left open.
SubscriptionsTornDownOnLeave ==
  [][\A s \in Sessions :
       /\ \A k \in DOMAIN stale'[s] : stale'[s][k].kind # "channel"
       /\ nodesSubscription'[s] \in {NULL, projectId'[s]}
       /\ edgesSubscription'[s] \in {NULL, projectId'[s]}
       /\ (projectId[s] \in Projects /\ projectId'[s] # projectId[s])
            => /\ nodesSubscription'[s] # projectId[s]
               /\ edgesSubscription'[s] # projectId[s]]_vars

\* The page went from P to Q while calls for P were awaited and it listens
\* to Q.
SwitchedWithCallsAwaited ==
  /\ projectId["A"] = "Q"
  /\ nodesSubscription["A"] = "Q"
  /\ edgesSubscription["A"] = "Q"
  /\ stale["A"] # <<>>

\* An operation of session s started for a project the page has left sets
\* state in this step.
StaleResult(s) ==
  \/ projectId'[s] = projectId[s] /\ stale'[s] # stale[s]
  \/ \E i \in DOMAIN saves[s] :
       /\ saves[s][i].pid # projectId[s]
       /\ saves[s][i].phase = "updateProject"
       /\ saves'[s][i].phase = "succeeded"

\* C25: the result of a load, a save or a reconciliation handler started
\* for project P1 is never applied after the page was closed or went over
\* to project P2: such a result leaves the local nodes, edges, isLoading and
\* the dirty flag as they are.
StaleResponsesDiscarded ==
  [][\A s \in Sessions :
       StaleResult(s) => /\ nodes'[s] = nodes[s]
                         /\ edges'[s] = edges[s]
                         /\ isLoading'[s] = isLoading[s]
                         /\ hasUnsavedChanges'[s] = hasUnsavedChanges[s]]_vars

-----------------------------------------------------------------------------
(* Further properties of reconciliation (SpecReconcile) *)

\* C26: when the fetchNodesByProject awaited by the node callback for an
\* INSERT or UPDATE event fails, the local nodes after the handler has
\* completed are the ones before it.
FailedFetchLeavesNodes ==
  [][\A k \in 1..MaxRemoteOps :
       NodeFetchReturn("A", k, TRUE) => nodes'["A"] = nodes["A"]]_vars

-----------------------------------------------------------------------------
(* Properties of tools and the nodes that use them (SpecStore) *)

\* C27: deleteTool(t) clears references and does not cascade: every node
\* that referenced t is still stored with tool_id empty and its other fields
\* unchanged, every other node is stored as it was and no node is added;
\* and in every state of the store a non-empty tool_id refers to an
\* existing tool.
DeleteToolClearsReferences ==
  [][/\ \A r \in dbNodes' : r.tool_id = NULL \/ r.tool_id \in tools'
     /\ (api.op = "none" /\ api'.op = "deleteTool")
        => /\ api'.ok
           /\ api'.id \notin tools'
           /\ dbNodes' = {IF r.tool_id = api'.id THEN [r EXCEPT !.tool_id = NULL]
                          ELSE r : r \in dbNodes}
           /\ dbEdges' = dbEdges]_vars

\* deleteTool has deleted the tool that node_1 referenced and node_1 is
\* stored without a tool.
ToolDeletedUnderNode ==
  /\ api.op = "deleteTool"
  /\ api.id = "t1"
  /\ "t1" \notin tools
  /\ NodeRow("node_1", "P", "Lookup", "Call the tool", "tool", NULL, 100, 200)
       \in dbNodes

\* C28: in every state of the store every node with node_type = 'tool' has
\* a tool_id that refers to an existing tool.
ToolNodesReferenceTool ==
  \A r \in dbNodes : r.node_type = "tool" => r.tool_id \in tools

-----------------------------------------------------------------------------
(* Properties of the page that only listens (SpecFeed) *)

\* Every delivered node event has been handled by session s.
NodeFeedDrained(s) == nodeEvents[s] = <<>> /\ nodeFetches[s] = <<>>

\* C29: node events take effect in the order they are delivered, whatever
\* the order in which the awaited fetches return. The page was in step with
\* the store and the events of every commit are delivered in commit order,
\* so once every handler has completed a node whose last event was a DELETE
\* is absent from the local nodes and every other node carries the fields
\* of its last INSERT or UPDATE, which are those of its stored row.
NodeEventsApplyInDeliveryOrder ==
  NodeFeedDrained("A") =>
    /\ \A i \in DOMAIN nodes["A"] : nodes["A"][i].id \in Ids(dbNodes)
    /\ \A r \in dbNodes :
         \E i \in DOMAIN nodes["A"] : CarriesNodeFields(nodes["A"][i], r)

\* C30: a node event leaves the local edges as they are and an edge event
\* leaves the local nodes as they are: a node removed by a DELETE event
\* keeps the edges attached to it, and an INSERT or UPDATE edge event is
\* applied whether or not its source and target are known locally.
NodeAndEdgeEventsDisjoint ==
  [][/\ (NodeEventTaken("A") \/ NodeHandlerResumed("A"))
          => edges'["A"] = edges["A"]
     /\ EdgeEventTaken("A") =>
          /\ nodes'["A"] = nodes["A"]
          /\ Head(edgeEvents["A"]).eventType # "DELETE" =>
               \E i \in DOMAIN edges'["A"] :
                 CarriesEdgeFields(edges'["A"][i], Head(edgeEvents["A"]).rec)]_vars

\* Reconciliation has removed node_1, which another client deleted, and
\* the edge to it is still in the local edges.
DanglingEdgeKept ==
  /\ \E i \in DOMAIN edges["A"] : edges["A"][i].id = "e1"
  /\ \A i \in DOMAIN nodes["A"] : nodes["A"][i].id # "node_1"
  /\ "node_1" \notin Ids(dbNodes)
  /\ NodeFeedDrained("A")

-----------------------------------------------------------------------------
(* Further properties of the durable store (SpecStore) *)

\* C31: saveFlow for project P affects only P: whatever the payload whose
\* rows carry project_id P, as handleSave makes them, the node rows and edge
\* rows of every other project are the same before and after the call, also
\* when a supplied id is the id of a row of another project.
SaveFlowLeavesOtherProjects ==
  [][(/\ api.op = "none" /\ api'.op = "saveFlow"
      /\ \A i \in DOMAIN api'.nodes : api'.nodes[i].project_id = api'.pid
      /\ \A i \in DOMAIN api'.edges : api'.edges[i].project_id = api'.pid)
       => \A q \in Projects \ {api'.pid} :
            /\ {r \in dbNodes' : r.project_id = q} = {r \in dbNodes : r.project_id = q}
            /\ {e \in dbEdges' : e.project_id = q} = {e \in dbEdges : e.project_id = q}]_vars

-----------------------------------------------------------------------------
(* Properties of overlapping saves (SpecOverlap) *)

\* The graph of project p in the store is the local graph of session s.
StoreEqualsLocal(s, p) ==
  /\ {r \in dbNodes : r.project_id = p}
       = {StoredNode(nodes[s][i], p) : i \in DOMAIN nodes[s]}
  /\ {e \in dbEdges : e.project_id = p}
       = {StoredEdge(edges[s][i], p) : i \in DOMAIN edges[s]}

\* C32: overlapping saves of one session converge to the latest snapshot:
\* when save S1 and, after an edit, save S2 were started before S1 had
\* completed, then once both have succeeded and the dirty flag is clear the
\* stored graph is the local graph of the session, in whatever order the
\* two requests reached the store.
OverlappingSavesConverge ==
  (/\ Len(saves["A"]) = 2
   /\ \A i \in DOMAIN saves["A"] : saves["A"][i].phase = "succeeded"
   /\ ~hasUnsavedChanges["A"])
  => StoreEqualsLocal("A", "P")

-----------------------------------------------------------------------------
(* Properties of loading under remote writes (SpecReconcile) *)

\* C33: a session that makes no local edit converges to the store: once
\* its load has completed and every change event delivered to it has been
\* handled, its local nodes and edges are the stored nodes and edges of the
\* project, however the fetches of the load and the events interleaved.
QuietSessionConverges ==
  (/\ projectId["A"] = "P"
   /\ load["A"] = "idle" /\ ~isLoading["A"] /\ error["A"] = NULL
   /\ used.edits["A"] = 0
   /\ NodeFeedDrained("A") /\ edgeEvents["A"] = <<>>)
  => StoreEqualsLocal("A", "P")

-----------------------------------------------------------------------------
(* Further properties of the Flow page (SpecSession) *)

\* C34: a load is all or nothing: when one of the three fetches of
\* loadProjectData has failed, so that the error is set, the local nodes,
\* edges and dirty flag are what they were when the load started, which for
\* the load of a page that has just mounted is the empty graph with the flag
\* clear.
FailedLoadLeavesLocalState ==
  \A s \in Sessions :
    (error[s] # NULL /\ load[s] = "idle")
      => nodes[s] = <<>> /\ edges[s] = <<>> /\ ~hasUnsavedChanges[s]

\* C35: local ids are unique: in every state the local nodes hold no two
\* nodes with the same id and the local edges no two edges with the same
\* id.
LocalIdsUnique ==
  \A s \in Sessions : ~DuplicateIds(nodes[s]) /\ ~DuplicateIds(edges[s])

-----------------------------------------------------------------------------
(* Properties of the home page (SpecHome) *)

\* C36: the project list never shows a project twice: however fetchProjects
\* and the INSERT events interleave, and although an event may be delivered
\* more than once or for a project the fetch already returned, the list
\* holds at most one entry per project id.
ProjectListedOnce == ~DuplicateIds(home.projects)

-----------------------------------------------------------------------------
(* Further properties of leaving a project (SpecView) *)

\* C37: the graph is marked loading for the whole time a load is in flight:
\* from the start of loadProjectData until the last fetch of that load has
\* returned isLoading is true, so that the canvas is not rendered and no
\* local mutation is accepted.
LoadingWhileLoadInFlight ==
  \A s \in Sessions : load[s] # "idle" => isLoading[s]

-----------------------------------------------------------------------------
(* Properties of the tool modal (SpecModal) *)

\* A handleSubmit step that finds the validation failure and stops there:
\* no toolService call is made and the store is as before, the modal is
\* still open with the error set, and isSubmitting is false.
RejectedStep ==
  /\ modal'.call = NoToolCall
  /\ tools' = tools
  /\ modal'.isOpen
  /\ modal'.error \in {"Invalid JSON in headers", "Invalid JSON in body"}
  /\ ~modal'.isSubmitting

\* C38 (as amended): submitting a Tool whose headers or body text is not
\* blank (not empty after trimming white space) and not parseable as JSON is
\* a validation failure that never reaches the store: neither createTool nor
\* updateTool is called, the modal stays open with the error set, and
\* isSubmitting is false again whenever handleSubmit has ended, on success,
\* on a validation failure and on a store failure.
InvalidToolNeverReachesStore ==
  [][/\ (/\ modal'.submits = modal.submits + 1
         /\ \E f \in {"headers", "body"} :
              trim(modal.formData[f]) # <<>> /\ ~JSON_parse(modal.formData[f]).ok)
        => RejectedStep
     /\ modal'.call.op = "none" => ~modal'.isSubmitting]_vars

\* C38, witness: a submit was rejected for its body text; the modal is open
\* and shows the error, nothing is awaited and the store has the one tool it
\* started with.
ValidationFailureShown ==
  /\ modal.submits > 0
  /\ modal.isOpen
  /\ modal.error = "Invalid JSON in body"
  /\ ~JSON_parse(modal.formData.body).ok
  /\ ~modal.isSubmitting
  /\ modal.call = NoToolCall
  /\ tools = {"t1"}

\* C38 (as stated): submitting a Tool whose headers or body text is not
\* empty and not parseable as JSON is a validation failure that never
\* reaches the store.
NonEmptyUnparseableToolRejected ==
  [][(/\ modal'.submits = modal.submits + 1
      /\ \E f \in {"headers", "body"} :
           modal.formData[f] # <<>> /\ ~JSON_parse(modal.formData[f]).ok)
       => RejectedStep]_vars

=============================================================================
